---- MODULE Spec2Model ----
(***************************************************************************)
(* Category and attribute resolution of the marktplaatser backend.         *)
(*                                                                         *)
(* Python strings are TLA+ strings; a Python dict is a function from       *)
(* strings (its keys) to values, so d.get(k, default) is a test on         *)
(* DOMAIN d; a Python list is a sequence.                                  *)
(***************************************************************************)
EXTENDS Integers, Sequences, FiniteSets, TLC

VARIABLES
    pc,             \* position of the operation under check
    categories,     \* the category tree fetch_marktplaats_categories returned
    flat,           \* flatten_categories(categories)
    suggested_path, \* match_category_name: the category path the AI suggested
    category_match, \* match_category_name: the returned match, or None
    ai_attributes,  \* map_ai_attributes_to_marktplaats: the raw AI attribute bag
    mp_attributes,  \* map_ai_attributes_to_marktplaats: the category's schema
    mapped,         \* map_ai_attributes_to_marktplaats: the returned list
    event,          \* lambda_handler: the request (user_id, postcode)
    services,       \* lambda_handler: what the token service and S3 answer
    listing_data,   \* lambda_handler: generate_listing_with_pinecone_rag's result
    response,       \* lambda_handler: the returned response, or None
    drafts,         \* lambda_handler: the drafts stored, in order
    matcher_calls,  \* lambda_handler: its calls of match_category_name
    category_id,    \* fetch_category_attributes: the category asked for
    fetched,        \* fetch_category_attributes: what it returned or raised
    api_calls,      \* the requests issued to the Marktplaats API, in order
    printed         \* map_ai_attributes_to_marktplaats: the diagnostics printed

vars == <<pc, categories, flat, suggested_path, category_match,
          ai_attributes, mp_attributes, mapped, printed,
          event, services, listing_data, response, drafts, matcher_calls,
          category_id, fetched, api_calls>>

None == [none |-> TRUE]

\* F(v), with v evaluated once: a local variable of the code.
With(v, F(_)) == CHOOSE r \in {F(x) : x \in {v}} : TRUE

(***************************************************************************)
(* Strings                                                                 *)
(***************************************************************************)

\* The characters the model's strings use, in code point order.
CodePoints == " '-0123456789>ABCDEFGHIJKLMNOPQRSTUVWXYZ_abcdefghijklmnopqrstuvwxyz|"

Ch(s, i) == SubSeq(s, i, i)

Ord(c) == CHOOSE i \in 1..Len(CodePoints) : Ch(CodePoints, i) = c

RECURSIVE StrLessFrom(_, _, _)
StrLessFrom(s, t, i) ==
    IF i > Len(t) THEN FALSE
    ELSE IF i > Len(s) THEN TRUE
    ELSE IF Ch(s, i) = Ch(t, i) THEN StrLessFrom(s, t, i + 1)
    ELSE Ord(Ch(s, i)) < Ord(Ch(t, i))

\* s < t for Python strings: lexicographic by code point.
StrLess(s, t) == StrLessFrom(s, t, 1)

RECURSIVE Strip(_)
\* s.strip(): without the leading and the trailing blanks.
Strip(s) ==
    IF s = "" THEN s
    ELSE IF Ch(s, 1) = " " THEN Strip(SubSeq(s, 2, Len(s)))
    ELSE IF Ch(s, Len(s)) = " " THEN Strip(SubSeq(s, 1, Len(s) - 1))
    ELSE s

\* The positions of s at which sep occurs.
Occurrences(s, sep) ==
    {i \in 1..(Len(s) - Len(sep) + 1) : SubSeq(s, i, i + Len(sep) - 1) = sep}

RECURSIVE Split(_, _)
\* s.split(sep) for a non-empty sep: the pieces between its occurrences,
\* found from the left.
Split(s, sep) ==
    IF Occurrences(s, sep) = {} THEN <<s>>
    ELSE With(CHOOSE i \in Occurrences(s, sep) : \A j \in Occurrences(s, sep) : i <= j,
              LAMBDA i : <<SubSeq(s, 1, i - 1)>>
                         \o Split(SubSeq(s, i + Len(sep), Len(s)), sep))

\* s.count(sub): the non-overlapping occurrences of sub in s.
RECURSIVE Count(_, _)
Count(s, sub) ==
    IF Len(s) < Len(sub) THEN 0
    ELSE IF SubSeq(s, 1, Len(sub)) = sub
    THEN 1 + Count(SubSeq(s, Len(sub) + 1, Len(s)), sub)
    ELSE Count(SubSeq(s, 2, Len(s)), sub)

(***************************************************************************)
(* difflib.SequenceMatcher and difflib.get_close_matches (Python standard  *)
(* library), as the two modules use them: isjunk is None and every string  *)
(* is shorter than 200, so no element is junk or popular.                  *)
(***************************************************************************)

RECURSIVE RunLen(_, _, _, _, _, _)
\* Length of the common run of a[i..ahi] and b[j..bhi] starting at i and j.
RunLen(a, b, i, j, ahi, bhi) ==
    IF i > ahi \/ j > bhi THEN 0
    ELSE IF Ch(a, i) # Ch(b, j) THEN 0
    ELSE 1 + RunLen(a, b, i + 1, j + 1, ahi, bhi)

\* find_longest_match: the longest block a[i..i+k-1] = b[j..j+k-1] inside
\* a[alo..ahi] and b[blo..bhi]; of the longest, the one starting earliest in
\* a, and of those the one starting earliest in b.  Positions are 1-based and
\* the ranges inclusive.
find_longest_match(a, b, alo, ahi, blo, bhi) ==
    With({<<RunLen(a, b, p[1], p[2], ahi, bhi), p[1], p[2]>> :
             p \in (alo..ahi) \X (blo..bhi)},
         LAMBDA runs :
             IF \A t \in runs : t[1] = 0
             THEN [i |-> alo, j |-> blo, k |-> 0]
             ELSE With(CHOOSE t \in runs : \A u \in runs :
                           \/ u[1] < t[1]
                           \/ (u[1] = t[1] /\ t[2] < u[2])
                           \/ (u[1] = t[1] /\ t[2] = u[2] /\ t[3] <= u[3]),
                       LAMBDA best : [i |-> best[2], j |-> best[3], k |-> best[1]]))

RECURSIVE matching_size(_, _, _, _, _, _)
\* get_matching_blocks: the total size of the blocks found by splitting
\* around the longest match and recursing to its left and to its right.
matching_size(a, b, alo, ahi, blo, bhi) ==
    With(find_longest_match(a, b, alo, ahi, blo, bhi),
         LAMBDA m :
             IF m.k = 0 THEN 0
             ELSE m.k
                  + (IF alo < m.i /\ blo < m.j
                     THEN matching_size(a, b, alo, m.i - 1, blo, m.j - 1) ELSE 0)
                  + (IF m.i + m.k <= ahi /\ m.j + m.k <= bhi
                     THEN matching_size(a, b, m.i + m.k, ahi, m.j + m.k, bhi) ELSE 0))

\* The number of matches of ratio(): SequenceMatcher(a = a, b = b).
matches(a, b) == matching_size(a, b, 1, Len(a), 1, Len(b))

CharsOf(s) == {Ch(s, i) : i \in 1..Len(s)}
CountOf(s, c) == Cardinality({i \in 1..Len(s) : Ch(s, i) = c})
Min(x, y) == IF x <= y THEN x ELSE y

RECURSIVE SumOver(_, _, _)
SumOver(S, a, b) ==
    IF S = {} THEN 0
    ELSE LET c == CHOOSE c \in S : TRUE
         IN  Min(CountOf(a, c), CountOf(b, c)) + SumOver(S \ {c}, a, b)

\* quick_ratio's matches: the size of the multiset intersection.
quick_matches(a, b) == SumOver(CharsOf(a), a, b)

\* real_quick_ratio's matches.
real_quick_matches(a, b) == Min(Len(a), Len(b))

\* _calculate_ratio(m, length) >= cutoff, the cutoff given in tenths:
\* 2.0 * m / length >= tenths / 10, and 1.0 when length is 0.
RatioAtLeast(m, length, tenths) ==
    IF length = 0 THEN 10 >= tenths ELSE 20 * m >= tenths * length

\* Tuple order of (score, x), the score kept as the fraction num / den: by
\* score, then by the string.
TupleLess(p, q) ==
    \/ p.num * q.den < q.num * p.den
    \/ (p.num * q.den = q.num * p.den /\ StrLess(p.x, q.x))

\* (score, x) of a candidate x that passes the three ratio tests of
\* get_close_matches, the score kept as the fraction num / den.
Scored(x, word, tenths) ==
    IF /\ RatioAtLeast(real_quick_matches(x, word), Len(x) + Len(word), tenths)
       /\ RatioAtLeast(quick_matches(x, word), Len(x) + Len(word), tenths)
    THEN With(matches(x, word),
              LAMBDA m :
                  IF ~RatioAtLeast(m, Len(x) + Len(word), tenths) THEN {}
                  ELSE IF Len(x) + Len(word) = 0 THEN {[num |-> 1, den |-> 1, x |-> x]}
                  ELSE {[num |-> 2 * m, den |-> Len(x) + Len(word), x |-> x]})
    ELSE {}

\* get_close_matches(word, possibilities, n=1, cutoff=tenths/10): the list
\* holding the x of the largest (score, x) among the candidates that pass
\* the three ratio tests, or the empty list.
get_close_matches(word, possibilities, tenths) ==
    With(UNION {Scored(possibilities[i], word, tenths) : i \in 1..Len(possibilities)},
         LAMBDA result :
             IF result = {} THEN <<>>
             ELSE <<(CHOOSE p \in result :
                         \A q \in result : q = p \/ TupleLess(q, p)).x>>)

(***************************************************************************)
(* attribute_mapper.py                                                     *)
(***************************************************************************)

LabelCutoffTenths == 6
EnumCutoffTenths == 4

\* d.get(k, default) of a Python dict.
Get(d, k, default) == IF k \in DOMAIN d THEN d[k] ELSE default

RECURSIVE InOrder(_, _)
\* The elements s[i], i in idx, in the order of the sequence.
InOrder(s, idx) ==
    IF idx = {} THEN <<>>
    ELSE LET m == CHOOSE i \in idx : \A j \in idx : i <= j
         IN  <<s[m]>> \o InOrder(s, idx \ {m})

Contains(s, x) == \E i \in 1..Len(s) : s[i] = x

\* _normalize_ai_attributes leaving the loop of lines 45-47 at the first
\* item it does not keep.
normalize_ai_attributes_until_bad(ai) ==
    IF ai.shape = "dict"
    THEN [i \in 1..Len(ai.items) |->
             [name |-> ai.items[i][1], value |-> ai.items[i][2]]]
    ELSE IF ai.shape = "list"
    THEN LET ok == {i \in 1..Len(ai.items) :
                       \A j \in 1..i :
                           /\ ai.items[j] # None
                           /\ "name" \in DOMAIN ai.items[j]
                           /\ "value" \in DOMAIN ai.items[j]}
             kept == InOrder(ai.items, ok)
         IN  [i \in 1..Len(kept) |->
                 [name |-> kept[i].name, value |-> kept[i].value]]
    ELSE <<>>

\* _normalize_ai_attributes: a dict gives one record per item, a list keeps
\* the dict items that carry "name" and "value", anything else gives [].
normalize_ai_attributes(ai) ==
    IF ai.shape = "dict"
    THEN [i \in 1..Len(ai.items) |->
             [name |-> ai.items[i][1], value |-> ai.items[i][2]]]
    ELSE IF ai.shape = "list"
    THEN LET ok == {i \in 1..Len(ai.items) :
                       /\ ai.items[i] # None
                       /\ "name" \in DOMAIN ai.items[i]
                       /\ "value" \in DOMAIN ai.items[i]}
             kept == InOrder(ai.items, ok)
         IN  [i \in 1..Len(kept) |->
                 [name |-> kept[i].name, value |-> kept[i].value]]
    ELSE <<>>

\* The label of an entry, with its key taken when it has no label.
LabelOf_or_key(attr) ==
    LET nl == Get(Get(attr, "labels", <<>>), "nl-NL", "")
    IN  IF nl # "" THEN nl
        ELSE IF Get(attr, "label", "") # "" THEN attr.label
        ELSE Get(attr, "key", "")

\* attr.get("labels", {}).get("nl-NL") or attr.get("label", "")
LabelOf(attr) ==
    LET nl == Get(Get(attr, "labels", <<>>), "nl-NL", "")
    IN  IF nl # "" THEN nl ELSE Get(attr, "label", "")

\* name_to_attr.keys(): the labels in the order of their first insertion.
name_to_attr_keys(mp) ==
    LET labels == [i \in 1..Len(mp) |-> LabelOf(mp[i])]
    IN  InOrder(labels, {i \in 1..Len(mp) :
                            /\ labels[i] # ""
                            /\ \A j \in 1..(i - 1) : labels[j] # labels[i]})

\* name_to_attr[label]: the last schema entry stored under the label.
name_to_attr(mp, label) ==
    mp[CHOOSE i \in 1..Len(mp) :
           /\ LabelOf(mp[i]) = label
           /\ \A j \in (i + 1)..Len(mp) : LabelOf(mp[j]) # label]

\* valid_values = [opt.get("value", "") for opt in match["options"]]
valid_values(match) ==
    [i \in 1..Len(match.options) |-> Get(match.options[i], "value", "")]

\* The loop body of a mapper that forwards an attribute it cannot match
\* under the AI attribute's own name.
map_ai_attribute_forwarding(ai_attr, mp) ==
    With(get_close_matches(ai_attr.name, name_to_attr_keys(mp), LabelCutoffTenths),
         LAMBDA found :
             IF found = <<>>
             THEN [mapped |-> <<[key |-> ai_attr.name, value |-> ai_attr.value]>>,
                   printed |-> <<>>]
             ELSE [mapped |-> <<[key |-> name_to_attr(mp, found[1]).key,
                                 value |-> ai_attr.value]>>,
                   printed |-> <<>>])

\* Lines 65-87: the attribute matched to the schema entry match.
map_matched(ai_value, match) ==
    IF "options" \in DOMAIN match
    THEN IF Contains(valid_values(match), ai_value)
         THEN [mapped |-> <<[key |-> match.key, value |-> ai_value]>>,
               printed |-> <<>>]
         ELSE With(get_close_matches(ai_value, valid_values(match), EnumCutoffTenths),
                   LAMBDA value_matches :
                       IF value_matches # <<>>
                       THEN [mapped |-> <<[key |-> match.key,
                                           value |-> value_matches[1]]>>,
                             printed |-> <<>>]
                       ELSE [mapped |-> <<>>,
                             printed |-> <<[value |-> ai_value,
                                            field |-> match.key]>>])
    ELSE [mapped |-> <<[key |-> match.key, value |-> ai_value]>>,
          printed |-> <<>>]

\* The body of the loop over the normalized attributes: what one AI
\* attribute appends to mapped and what it prints.
map_ai_attribute(ai_attr, mp) ==
    With(get_close_matches(ai_attr.name, name_to_attr_keys(mp), LabelCutoffTenths),
         LAMBDA found :
             IF found = <<>> THEN [mapped |-> <<>>, printed |-> <<>>]
             ELSE map_matched(ai_attr.value, name_to_attr(mp, found[1])))

RECURSIVE map_normalized(_, _)
map_normalized(normalized, mp) ==
    IF normalized = <<>> THEN [mapped |-> <<>>, printed |-> <<>>]
    ELSE With(<<map_ai_attribute(Head(normalized), mp),
                map_normalized(Tail(normalized), mp)>>,
              LAMBDA r : [mapped |-> r[1].mapped \o r[2].mapped,
                          printed |-> r[1].printed \o r[2].printed])

\* A mapper that branches on the shape after the normalization: the items
\* of a list are mapped from the last to the first.
map_ai_attributes_to_marktplaats_by_shape(ai, mp) ==
    IF ai.shape = "list"
    THEN map_normalized([i \in 1..Len(normalize_ai_attributes(ai)) |->
                            normalize_ai_attributes(ai)[
                                Len(normalize_ai_attributes(ai)) + 1 - i]], mp)
    ELSE map_normalized(normalize_ai_attributes(ai), mp)

\* map_ai_attributes_to_marktplaats: what it returns and what it prints.
map_ai_attributes_to_marktplaats(ai, mp) ==
    map_normalized(normalize_ai_attributes(ai), mp)

(***************************************************************************)
(* The inputs of the attribute mapper.                                      *)
(***************************************************************************)

MaxAttrs == 2
MaxSchema == 2

nl(label) == "nl-NL" :> label

\* Schema entries as the attributes service and the repository's fixtures
\* give them: options that carry "value", options that carry "key" and
\* "labels", an empty options list, no options, a plain "label", no label.
EntryPool == <<
    [key |-> "conditie", labels |-> nl("Conditie"), type |-> "ENUM",
     options |-> <<[value |-> "nieuw", label |-> "Nieuw"],
                   [value |-> "gebruikt", label |-> "Gebruikt"]>>],
    [key |-> "conditie", labels |-> nl("Conditie"), type |-> "ENUM",
     options |-> <<[key |-> "nieuw", labels |-> nl("Nieuw")],
                   [key |-> "gebruikt", labels |-> nl("Gebruikt")]>>],
    [key |-> "delivery", labels |-> nl("Levering"), type |-> "STRING",
     options |-> <<[value |-> "pickup", label |-> "Ophalen"],
                   [value |-> "delivery", label |-> "Verzenden"]>>],
    [key |-> "merk", labels |-> nl("Merk"), type |-> "STRING"],
    [key |-> "year", labels |-> nl("Bouwjaar"), type |-> "NUMBER",
     options |-> <<>>],
    [key |-> "kleur", label |-> "Kleur", type |-> "STRING"],
    [key |-> "color", labels |-> nl("Kleur"), type |-> "STRING"],
    [key |-> "model", type |-> "STRING"]
>>

\* The schemas: up to MaxSchema entries of the pool, in its order, with
\* distinct keys.
Schemas ==
    {InOrder(EntryPool, ix) :
        ix \in {ix \in SUBSET (1..Len(EntryPool)) :
                   /\ Cardinality(ix) <= MaxSchema
                   /\ \A i, j \in ix :
                          i # j => EntryPool[i].key # EntryPool[j].key}}

\* AI attributes as the language model gives them: <<name, value>>.
AiPool == <<
    <<"condition", "Gebruikt">>, <<"condition", "perfect">>,
    <<"condition", "nieuwe">>,
    <<"Conditie", "gebruikt">>, <<"Conditie", "">>,
    <<"Levering", "Ophalen">>, <<"merk", "BMW">>,
    <<"bouwjaar", "2018">>, <<"kleur", "rood">>, <<"model", "Golf">>
>>

\* Up to MaxAttrs attributes of the pool, in its order, with distinct names.
AiItems ==
    {InOrder(AiPool, ix) :
        ix \in {ix \in SUBSET (1..Len(AiPool)) :
                   /\ Cardinality(ix) <= MaxAttrs
                   /\ \A i, j \in ix : i # j => AiPool[i][1] # AiPool[j][1]}}

AiBags ==
    {[shape |-> "dict", items |-> s] : s \in AiItems}
    \cup {[shape |-> "list",
           items |-> [i \in 1..Len(s) |-> [name |-> s[i][1], value |-> s[i][2]]]] :
             s \in AiItems}

\* The category matcher is not part of a run of the attribute mapper.
MatcherIdle ==
    /\ categories = <<>>
    /\ flat = <<>>
    /\ suggested_path = ""
    /\ category_match = None

\* The generate-listing handler is not part of a run of the two functions.
HandlerIdle ==
    /\ event = None
    /\ services = None
    /\ listing_data = None
    /\ response = None
    /\ drafts = <<>>
    /\ matcher_calls = 0
    /\ category_id = 0
    /\ fetched = None
    /\ api_calls = <<>>

InitMapper ==
    /\ pc = "start"
    /\ MatcherIdle
    /\ HandlerIdle
    /\ ai_attributes \in AiBags
    /\ mp_attributes \in Schemas
    /\ mapped = <<>>
    /\ printed = <<>>

\* map_ai_attributes_to_marktplaats(ai_attributes, mp_attributes)
Map ==
    /\ pc = "start"
    /\ \E r \in {map_ai_attributes_to_marktplaats(ai_attributes, mp_attributes)} :
           /\ mapped' = r.mapped
           /\ printed' = r.printed
    /\ pc' = "done"
    /\ UNCHANGED <<ai_attributes, mp_attributes>>
    /\ UNCHANGED <<categories, flat, suggested_path, category_match>>
    /\ UNCHANGED <<event, services, listing_data, response, drafts, matcher_calls>>
    /\ UNCHANGED <<category_id, fetched, api_calls>>

NextMapper == Map

SpecMapper == InitMapper /\ [][NextMapper]_vars

(***************************************************************************)
(* Properties of the attribute mapper.                                     *)
(***************************************************************************)

Normalized == normalize_ai_attributes(ai_attributes)
Schema == {mp_attributes[i] : i \in 1..Len(mp_attributes)}

\* The similarity ratio of candidate x to word is at least tenths / 10.
Similar(x, word, tenths) ==
    RatioAtLeast(matches(x, word), Len(x) + Len(word), tenths)

\* The AI attributes whose name is similar enough to some schema label.
WithSchemaLabel ==
    {i \in 1..Len(Normalized) :
        \E e \in Schema :
            /\ LabelOf(e) # ""
            /\ Similar(LabelOf(e), Normalized[i].name, LabelCutoffTenths)}

\* The schema entry an AI attribute is matched to, or None.
MatchedEntry(ai_attr) ==
    LET found == get_close_matches(ai_attr.name, name_to_attr_keys(mp_attributes),
                                   LabelCutoffTenths)
    IN  IF found = <<>> THEN None ELSE name_to_attr(mp_attributes, found[1])

\* An entry is ENUM-typed when it carries enum options.
IsEnum(e) == "options" \in DOMAIN e /\ e.options # <<>>

\* The token and the label of an enum option, in either shape the options
\* come in: {value, label} or {key, labels}.
TokenOf(opt) == IF "value" \in DOMAIN opt THEN opt.value ELSE opt.key
OptionLabel(opt) == LabelOf(opt)
OptionsOf(e) == {e.options[i] : i \in 1..Len(e.options)}

C2_EnumValueIsToken ==
    pc = "done" =>
        \A k \in 1..Len(mapped) : \A e \in Schema :
            (e.key = mapped[k].key /\ IsEnum(e)) =>
                \E o \in OptionsOf(e) : mapped[k].value = TokenOf(o)

\* C3 as claimed: an AI value equal to the token or to the label of an
\* option of the matched ENUM-typed entry is emitted as that option's token.
C3_ExactOptionEmitsToken ==
    pc = "done" =>
        \A i \in 1..Len(Normalized) :
            LET e == MatchedEntry(Normalized[i])
            IN  (e # None /\ IsEnum(e)) =>
                    \A o \in OptionsOf(e) :
                        (Normalized[i].value \in {TokenOf(o), OptionLabel(o)}) =>
                            Contains(mapped, [key |-> e.key, value |-> TokenOf(o)])

\* C4 as claimed: an AI value that equals no token and no label of the
\* matched ENUM-typed entry is emitted as an option token when one of the
\* options is similar to it (ratio >= 0.4), and is otherwise left out of the
\* output with a diagnostic printed.
C4_SimilarOptionEmitted ==
    pc = "done" =>
        \A i \in 1..Len(Normalized) :
            LET e == MatchedEntry(Normalized[i])
                v == Normalized[i].value
                similar == \E o \in OptionsOf(e) :
                               \/ Similar(TokenOf(o), v, EnumCutoffTenths)
                               \/ Similar(OptionLabel(o), v, EnumCutoffTenths)
            IN  (/\ e # None
                 /\ IsEnum(e)
                 /\ \A o \in OptionsOf(e) : v \notin {TokenOf(o), OptionLabel(o)})
                => IF similar
                   THEN \E o \in OptionsOf(e) :
                            Contains(mapped, [key |-> e.key, value |-> TokenOf(o)])
                   ELSE /\ ~Contains(mapped, [key |-> e.key, value |-> v])
                        /\ Contains(printed, [value |-> v, field |-> e.key])

\* C5 as claimed: an AI attribute matched to an entry that is not
\* ENUM-typed (no options, or an empty options list) is emitted with its
\* value unchanged.
C5_NonEnumVerbatim ==
    pc = "done" =>
        \A i \in 1..Len(Normalized) :
            LET e == MatchedEntry(Normalized[i])
            IN  (e # None /\ ~IsEnum(e)) =>
                    Contains(mapped, [key |-> e.key, value |-> Normalized[i].value])

(***************************************************************************)
(* category_matcher.py                                                     *)
(***************************************************************************)

PathCutoffTenths == 6

RECURSIVE flatten_categories_siblings_first(_, _)
\* flatten_categories putting the children of a node after its siblings.
flatten_categories_siblings_first(cats, parent_path) ==
    IF cats = <<>> THEN <<>>
    ELSE With(IF parent_path # ""
              THEN parent_path \o " > " \o Get(Head(cats).labels, "nl-NL", Head(cats).name)
              ELSE Get(Head(cats).labels, "nl-NL", Head(cats).name),
              LAMBDA full_path :
                  <<[name |-> Strip(full_path), id |-> Head(cats).categoryId]>>
                  \o flatten_categories_siblings_first(Tail(cats), parent_path)
                  \o flatten_categories_siblings_first(
                         Get(Get(Head(cats), "_embedded", <<>>), "mp:category", <<>>),
                         full_path))

RECURSIVE flatten_categories(_, _)
\* flatten_categories(categories, parent_path): one {name, id} per node,
\* a node before its children and the children before the next sibling.
flatten_categories(cats, parent_path) ==
    IF cats = <<>> THEN <<>>
    ELSE With(IF parent_path # ""
              THEN parent_path \o " > " \o Get(Head(cats).labels, "nl-NL", Head(cats).name)
              ELSE Get(Head(cats).labels, "nl-NL", Head(cats).name),
              LAMBDA full_path :
                  <<[name |-> Strip(full_path), id |-> Head(cats).categoryId]>>
                  \o flatten_categories(
                         Get(Get(Head(cats), "_embedded", <<>>), "mp:category", <<>>),
                         full_path)
                  \o flatten_categories(Tail(cats), parent_path))

\* simplify_path keeping the second piece where the code keeps the last.
simplify_path_second(path) ==
    With(Split(path, ">"),
         LAMBDA pieces :
             IF Len(pieces) >= 2
             THEN Strip(pieces[1]) \o " > " \o Strip(pieces[2])
             ELSE Strip(path))

\* simplify_path keeping only the first piece.
simplify_path_first(path) == Strip(Split(path, ">")[1])

\* simplify_path
simplify_path(path) ==
    With(Split(path, ">"),
         LAMBDA pieces :
             IF Len(pieces) >= 2
             THEN Strip(pieces[1]) \o " > " \o Strip(pieces[Len(pieces)])
             ELSE Strip(path))

\* name_to_id.keys(): the paths in the order of their first insertion.
name_to_id_keys(flat_categories) ==
    InOrder([i \in 1..Len(flat_categories) |-> flat_categories[i].name],
            {i \in 1..Len(flat_categories) :
                \A j \in 1..(i - 1) :
                    flat_categories[j].name # flat_categories[i].name})

\* name_to_id[name]: the id of the last entry stored under the path.
name_to_id(flat_categories, name) ==
    flat_categories[CHOOSE i \in 1..Len(flat_categories) :
                        /\ flat_categories[i].name = name
                        /\ \A j \in (i + 1)..Len(flat_categories) :
                               flat_categories[j].name # name].id

\* match_category_name with the cutoff of the option matching (0.4).
match_category_name_low_cutoff(path, flat_categories) ==
    With(get_close_matches(simplify_path(path), name_to_id_keys(flat_categories),
                           EnumCutoffTenths),
         LAMBDA found :
             IF found # <<>>
             THEN [match |-> found[1],
                   categoryId |-> name_to_id(flat_categories, found[1])]
             ELSE None)

\* match_category_name
match_category_name(path, flat_categories) ==
    With(get_close_matches(simplify_path(path), name_to_id_keys(flat_categories),
                           PathCutoffTenths),
         LAMBDA found :
             IF found # <<>>
             THEN [match |-> found[1],
                   categoryId |-> name_to_id(flat_categories, found[1])]
             ELSE None)

(***************************************************************************)
(* The inputs of the category matcher.                                     *)
(***************************************************************************)

MaxSegments == 4

\* A node of the category tree as the categories service gives it.
Cat(id, label, children) ==
    [categoryId |-> id, name |-> label, labels |-> nl(label)]
    @@ ("_embedded" :> ("mp:category" :> children))

\* A node without a Dutch label and without children.
BareCat(id, name) == [categoryId |-> id, name |-> name, labels |-> <<>>]

\* Category trees: ids as in the fixtures (1, 11, 12, 2, 21), sibling labels
\* distinct, so that the flattened paths are unique.
Taxonomies == {
    <<Cat(1, "Auto", <<Cat(11, "Alfa", <<>>),
                       Cat(12, "Audi", <<Cat(121, "A4", <<>>)>>)>>),
      Cat(2, "Fiets", <<Cat(21, "Race", <<>>)>>)>>,
    <<Cat(1, "Auto", <<Cat(11, "Audi", <<>>), Cat(12, "Alfa", <<>>)>>),
      Cat(2, "Boot", <<>>)>>,
    <<Cat(1, "Auto", <<Cat(11, "A4", <<>>), Cat(12, "Audi", <<>>)>>)>>,
    <<Cat(1, "Audi", <<Cat(11, "A4", <<BareCat(111, "Auto")>>)>>),
      BareCat(2, "Auto")>>,
    <<BareCat(1, "Boot"), BareCat(2, "Fiets")>>,
    <<>>
}

\* The segments of the paths the language model suggests.
SegmentPool == {"Auto", "Audi", "A4", "Boot"}

RECURSIVE JoinedPaths(_)
\* The paths of exactly n segments joined by " > ".
JoinedPaths(n) ==
    IF n = 1 THEN SegmentPool
    ELSE {p \o " > " \o x : p \in JoinedPaths(n - 1), x \in SegmentPool}

\* Suggested paths: well-formed ones of up to MaxSegments segments, and
\* some with other spacing around '>' or none, or empty.
SuggestedPaths ==
    UNION {JoinedPaths(n) : n \in 1..MaxSegments}
    \cup {"", " Auto", "Auto>Audi", "Auto>Audi > A4", "Auto > Audi >",
          "Auto >Alfa", "Alfa"}

\* The attribute mapper is not part of a run of the category matcher.
MapperIdle ==
    /\ ai_attributes = None
    /\ mp_attributes = <<>>
    /\ mapped = <<>>
    /\ printed = <<>>

\* The paths of a category tree: a suggested path may be one of them.
PathsOf(cats) ==
    {flatten_categories(cats, "")[i].name :
        i \in 1..Len(flatten_categories(cats, ""))}

InitMatcher ==
    /\ pc = "start"
    /\ categories \in Taxonomies
    /\ suggested_path \in SuggestedPaths \cup PathsOf(categories)
    /\ flat = <<>>
    /\ category_match = None
    /\ MapperIdle
    /\ HandlerIdle

\* flat = flatten_categories(cats)
Flatten ==
    /\ pc = "start"
    /\ flat' = flatten_categories(categories, "")
    /\ pc' = "flat"
    /\ UNCHANGED <<categories, suggested_path, category_match>>
    /\ UNCHANGED <<ai_attributes, mp_attributes, mapped, printed>>
    /\ UNCHANGED <<event, services, listing_data, response, drafts, matcher_calls>>
    /\ UNCHANGED <<category_id, fetched, api_calls>>

\* category_match = match_category_name(suggested_path, flat)
MatchName ==
    /\ pc = "flat"
    /\ category_match' = match_category_name(suggested_path, flat)
    /\ pc' = "done"
    /\ UNCHANGED <<categories, flat, suggested_path>>
    /\ UNCHANGED <<ai_attributes, mp_attributes, mapped, printed>>
    /\ UNCHANGED <<event, services, listing_data, response, drafts, matcher_calls>>
    /\ UNCHANGED <<category_id, fetched, api_calls>>

NextMatcher == Flatten \/ MatchName

SpecMatcher == InitMatcher /\ [][NextMatcher]_vars

(***************************************************************************)
(* Properties of the category matcher.                                     *)
(***************************************************************************)

\* The entries of flat stored under a path.
EntriesAt(path) == {i \in 1..Len(flat) : flat[i].name = path}

\* The depth of a flattened path whose labels hold no '>'.
DepthOf(path) == Count(path, ">") + 1

\* The similarity ratio of a path to a word, as the fraction num / den.
RatioOf(path, word) ==
    IF Len(path) + Len(word) = 0 THEN [num |-> 1, den |-> 1]
    ELSE [num |-> 2 * matches(path, word), den |-> Len(path) + Len(word)]

RatioLess(r, q) == r.num * q.den < q.num * r.den

\* The entries of flat whose path is similar enough to a word.
Candidates(word) ==
    {i \in 1..Len(flat) : Similar(flat[i].name, word, PathCutoffTenths)}

\* The candidates of the highest ratio.
Best(word) ==
    {i \in Candidates(word) :
        \A j \in Candidates(word) :
            ~RatioLess(RatioOf(flat[i].name, word), RatioOf(flat[j].name, word))}

\* The result for an entry of flat.
ResultFor(i) == [match |-> flat[i].name, categoryId |-> flat[i].id]

\* C6 as claimed: matching the path of any entry of the flattened taxonomy,
\* at any depth, returns that entry (its path and its id).
C6_SelfRoundTrip ==
    pc = "done" =>
        \A i \in EntriesAt(suggested_path) : category_match = ResultFor(i)

\* C6 as amended: matching the path of a level-2 entry (depth 2), the only
\* entry under that path, returns that entry (its path and its id).
C6_SelfRoundTripAtLevelTwo ==
    pc = "done" =>
        \A i \in EntriesAt(suggested_path) :
            (DepthOf(flat[i].name) = 2 /\ EntriesAt(suggested_path) = {i})
                => category_match = ResultFor(i)

\* A depth-2 entry has been matched by its own path.
C6_Witness ==
    /\ pc = "done"
    /\ \E i \in EntriesAt(suggested_path) : DepthOf(flat[i].name) = 2
    /\ category_match # None

\* C7 as claimed: the result is the entry of the highest ratio among those
\* of ratio >= 0.6 to the simplified input, the first of them in flattened
\* order when several share that ratio, and None when there is none.
C7_BestFirstInOrder ==
    pc = "done" =>
        LET word == simplify_path(suggested_path)
        IN  IF Candidates(word) = {} THEN category_match = None
            ELSE category_match =
                     ResultFor(CHOOSE i \in Best(word) :
                                   \A j \in Best(word) : i <= j)

\* C7 as amended: the result is the entry of the highest ratio among those
\* of ratio >= 0.6 to the simplified input, the one whose path is greatest
\* in string order when several share that ratio, and None when there is
\* none.
C7_BestGreatestPath ==
    pc = "done" =>
        LET word == simplify_path(suggested_path)
        IN  IF Candidates(word) = {} THEN category_match = None
            ELSE \E i \in Best(word) :
                     /\ \A j \in Best(word) : ~StrLess(flat[i].name, flat[j].name)
                     /\ category_match = ResultFor(i)

\* Two entries shared the highest ratio and one of them was returned.
C7_Witness ==
    /\ pc = "done"
    /\ Cardinality(Best(simplify_path(suggested_path))) >= 2
    /\ category_match # None

\* C8: a returned match is a level-2 path: it holds exactly one " > ".
C8_MatchIsLevelTwo ==
    (pc = "done" /\ category_match # None)
        => Count(category_match.match, " > ") = 1

\* The part of a path before its first '>' and the part after its last.
BeforeFirst(path) ==
    SubSeq(path, 1, (CHOOSE i \in 1..Len(path) :
                         Ch(path, i) = ">" /\ \A j \in 1..(i - 1) : Ch(path, j) # ">") - 1)
AfterLast(path) ==
    SubSeq(path, (CHOOSE i \in 1..Len(path) :
                      Ch(path, i) = ">" /\ \A j \in (i + 1)..Len(path) : Ch(path, j) # ">") + 1,
           Len(path))

\* The result of matching a word as it stands.
Resolve(word) ==
    LET found == get_close_matches(word, name_to_id_keys(flat), PathCutoffTenths)
    IN  IF found = <<>> THEN None
        ELSE [match |-> found[1], categoryId |-> name_to_id(flat, found[1])]

\* C9 as claimed: a path of more than two " > "-delimited segments is
\* matched as first segment + " > " + last segment, a path of one or two
\* segments as it stands.
C9_SimplifiedBySeparator ==
    pc = "done" =>
        category_match =
            Resolve(LET segments == Split(suggested_path, " > ")
                    IN  IF Len(segments) > 2
                        THEN segments[1] \o " > " \o segments[Len(segments)]
                        ELSE suggested_path)

\* C9 as amended: a path holding '>' is matched as the part before its
\* first '>' + " > " + the part after its last '>', both trimmed of blanks;
\* a path without '>' is matched trimmed of blanks.
C9_SimplifiedByCharacter ==
    pc = "done" =>
        category_match =
            Resolve(IF Count(suggested_path, ">") >= 1
                    THEN Strip(BeforeFirst(suggested_path)) \o " > "
                             \o Strip(AfterLast(suggested_path))
                    ELSE Strip(suggested_path))

\* A path of four segments has been matched to an entry.
C9_Witness ==
    /\ pc = "done"
    /\ Count(suggested_path, " > ") = 3
    /\ category_match # None

(***************************************************************************)
(* generate_listing_lambda.py: lambda_handler                              *)
(***************************************************************************)

MinPrice == 1
MaxPrice == 50000
AuctionDuration == 7
DefaultPostcode == "1000AA"

Max(x, y) == IF x >= y THEN x ELSE y

\* What a run of the handler leaves: the response, the list `flat` it built,
\* the category it resolved, its calls of match_category_name and the
\* drafts it stored.
Outcome(statusCode, error, fl, cm, calls, stored) ==
    [response |-> [statusCode |-> statusCode, error |-> error],
     flat |-> fl, category_match |-> cm, matcher_calls |-> calls,
     drafts |-> stored]

\* What fetch_category_attributes leaves: the exception it raised ("" when
\* none) with the kind of its message, the fields it returned and the
\* requests <<parent id, category id>> it issued.
Fetched(raised, message, fields, requests) ==
    [raised |-> raised, message |-> message, fields |-> fields,
     requests |-> requests]

\* Lines 27-37: the request for the attributes of (parent, category).  api
\* is what the outside answers: whether a token is granted, whether the
\* response status is a success, and the "fields" of the response body.
request_attributes(parent_id, cat_id, api) ==
    IF ~api.token_ok THEN Fetched("Exception", "token", <<>>, <<>>)
    ELSE IF ~api.status_ok
    THEN Fetched("HTTPError", "status", <<>>, <<<<parent_id, cat_id>>>>)
    ELSE Fetched("", "", api.fields, <<<<parent_id, cat_id>>>>)

\* fetch_category_attributes rejecting only the paths of fewer than two
\* segments.
fetch_category_attributes_at_least_two(cat_id, flat_categories, api) ==
    With({i \in 1..Len(flat_categories) : flat_categories[i].id = cat_id},
         LAMBDA targets :
             IF targets = {} THEN Fetched("ValueError", "not found", <<>>, <<>>)
             ELSE With(Split(flat_categories[CHOOSE i \in targets :
                                                 \A j \in targets : i <= j].name,
                             " > "),
                       LAMBDA pieces :
                           IF Len(pieces) < 2
                           THEN Fetched("ValueError", "level 2 categories", <<>>, <<>>)
                           ELSE request_attributes(flat_categories[1].id, cat_id, api)))

\* fetch_category_attributes taking the first entry of the list as the
\* parent.
fetch_category_attributes_first_root(cat_id, flat_categories, api) ==
    With({i \in 1..Len(flat_categories) : flat_categories[i].id = cat_id},
         LAMBDA targets :
             IF targets = {} THEN Fetched("ValueError", "not found", <<>>, <<>>)
             ELSE With(Split(flat_categories[CHOOSE i \in targets :
                                                 \A j \in targets : i <= j].name,
                             " > "),
                       LAMBDA pieces :
                           IF Len(pieces) # 2
                           THEN Fetched("ValueError", "level 2 categories", <<>>, <<>>)
                           ELSE request_attributes(flat_categories[1].id, cat_id, api)))

\* fetch_category_attributes(category_id, flat_categories)
fetch_category_attributes(cat_id, flat_categories, api) ==
    With({i \in 1..Len(flat_categories) : flat_categories[i].id = cat_id},
         LAMBDA targets :
             IF targets = {} THEN Fetched("ValueError", "not found", <<>>, <<>>)
             ELSE With(Split(flat_categories[CHOOSE i \in targets :
                                                 \A j \in targets : i <= j].name,
                             " > "),
                       LAMBDA pieces :
                           IF Len(pieces) # 2
                           THEN Fetched("ValueError", "level 2 categories", <<>>, <<>>)
                           ELSE With({i \in 1..Len(flat_categories) :
                                         /\ flat_categories[i].name = pieces[1]
                                         /\ Occurrences(flat_categories[i].name, " > ") = {}},
                                     LAMBDA parents :
                                         IF parents = {}
                                         THEN Fetched("ValueError", "parent not found",
                                                      <<>>, <<>>)
                                         ELSE request_attributes(
                                                  flat_categories[CHOOSE i \in parents :
                                                      \A j \in parents : i <= j].id,
                                                  cat_id, api))))

\* Lines 131-145: the attributes mapped for the resolved category; [] when
\* anything raises, as category_match["id"] does on a dict without "id".
mapped_attributes(cm, fl, ld, fields) ==
    IF "id" \notin DOMAIN cm THEN <<>>
    ELSE With(fetch_category_attributes(cm.id, fl,
                  [token_ok |-> TRUE, status_ok |-> TRUE, fields |-> fields]),
              LAMBDA got :
                  IF got.raised # "" THEN <<>>
                  ELSE map_ai_attributes_to_marktplaats(ld.attributes,
                                                        got.fields).mapped)

\* Line 157: max(1, min(50000, int(estimated_price)))
clamp_price(price) == Max(MinPrice, Min(MaxPrice, price))

\* Lines 193-220: the price model of the draft.
price_model(ld) ==
    IF "estimatedPrice" \in DOMAIN ld
    THEN IF ld.suggestedPricingModel = "bidding"
         THEN [modelType |-> "bidding",
               askingPrice |-> clamp_price(ld.estimatedPrice),
               minimalBid |-> Max(1, clamp_price(ld.estimatedPrice) \div 20),
               auctionDuration |-> AuctionDuration]
         ELSE [modelType |-> "fixed",
               askingPrice |-> clamp_price(ld.estimatedPrice)]
    ELSE [modelType |-> ld.suggestedPricingModel, askingPrice |-> 0]

\* create_draft_from_ai_generation: the draft stored for an AI result.
create_draft_from_ai_generation(user_id, ai_result, image_urls, postcode) ==
    [user_id |-> user_id,
     title |-> ai_result.title,
     description |-> ai_result.description,
     category_id |-> ai_result.categoryId,
     category_name |-> ai_result.categoryName,
     attributes |-> ai_result.attributes,
     price_model |-> ai_result.priceModel,
     postcode |-> postcode,
     images |-> image_urls,
     ai_generated |-> TRUE,
     status |-> "draft"]

\* Lines 129-263: from the resolved category to the stored draft.  Reading
\* category_match["id"] or ["name"] of a dict without that key raises
\* KeyError, a missing required field raises ValueError: both end in the
\* handler's `except Exception` with status 500.
store_draft(ev, svc, fl, ld, cm, calls, fields) ==
    IF "id" \notin DOMAIN cm \/ "name" \notin DOMAIN cm
    THEN Outcome(500, "KeyError", fl, cm, calls, <<>>)
    ELSE IF ld.title = "" \/ ld.description = "" \/ cm.id = 0
    THEN Outcome(500, "ValueError", fl, cm, calls, <<>>)
    ELSE Outcome(200, "", fl, cm, calls,
             <<create_draft_from_ai_generation(
                   ev.user_id,
                   [title |-> ld.title, description |-> ld.description,
                    categoryId |-> cm.id, categoryName |-> cm.name,
                    attributes |-> mapped_attributes(cm, fl, ld, fields),
                    priceModel |-> price_model(ld)],
                   IF svc.s3_ok THEN <<"image_url">> ELSE <<>>,
                   ev.postcode)>>)

\* Lines 80-94: the entry of flat with the candidate categoryId, or None.
\* listing_data.get("categoryId") is None when the key is absent.
find_by_id(ld, fl) ==
    IF "categoryId" \notin DOMAIN ld THEN None
    ELSE IF ld.categoryId = 0 THEN None
    ELSE IF \A i \in 1..Len(fl) : fl[i].id # ld.categoryId THEN None
    ELSE fl[CHOOSE i \in 1..Len(fl) :
                /\ fl[i].id = ld.categoryId
                /\ \A j \in 1..(i - 1) : fl[j].id # ld.categoryId]

\* Lines 96-127: `if not category_match` returns 400; its `else` branch,
\* taken when the lookup by id found an entry, assigns the result of
\* match_category_name to category_match and returns 400 when it is None.
resolve_category(ev, svc, fl, ld, fields) ==
    IF find_by_id(ld, fl) = None
    THEN Outcome(400, "Could not find category", fl, None, 0, <<>>)
    ELSE With(match_category_name(ld.category, fl),
              LAMBDA cm :
                  IF cm = None
                  THEN Outcome(400, "Could not match category", fl, None, 1, <<>>)
                  ELSE store_draft(ev, svc, fl, ld, cm, 1, fields))

\* lambda_handler
lambda_handler(ev, svc, cats, ld, fields) ==
    IF ev.user_id = ""
    THEN Outcome(400, "user_id is required", <<>>, None, 0, <<>>)
    ELSE IF ~svc.token_ok
    THEN Outcome(401, "Could not resolve user identity", <<>>, None, 0, <<>>)
    ELSE resolve_category(ev, svc, flatten_categories(cats, ""), ld, fields)

(***************************************************************************)
(* The inputs of the handler.                                              *)
(***************************************************************************)

Events == {[user_id |-> u, postcode |-> DefaultPostcode] : u \in {"", "u1"}}

Services == [token_ok : BOOLEAN, s3_ok : BOOLEAN]

\* What the vector search and the language model give: a category path,
\* attributes, a pricing model and, when present, a candidate categoryId
\* (ids of the trees and one of no tree) and an estimated price.
ListingData ==
    {base @@ candidate @@ price :
        base \in [title : {"Audi A4"},
                  description : {"Nette auto"},
                  category : {"", "Auto > Audi", "Auto > Audi > A4", "Boot"},
                  attributes : {[shape |-> "dict",
                                 items |-> <<<<"Levering", "Ophalen">>>>]},
                  suggestedPricingModel : {"fixed", "bidding"}],
        candidate \in {<<>>} \cup [categoryId : {0, 1, 2, 12, 121, 99}],
        price \in {<<>>} \cup [estimatedPrice : {0, 100, 60000}]}

InitHandler ==
    /\ pc = "start"
    /\ event \in Events
    /\ services \in Services
    /\ categories \in Taxonomies
    /\ listing_data \in ListingData
    /\ mp_attributes = <<EntryPool[3]>>
    /\ flat = <<>>
    /\ category_match = None
    /\ suggested_path = ""
    /\ ai_attributes = None
    /\ mapped = <<>>
    /\ printed = <<>>
    /\ response = None
    /\ drafts = <<>>
    /\ matcher_calls = 0
    /\ category_id = 0
    /\ fetched = None
    /\ api_calls = <<>>

\* One request to the handler, from its first line to its return.
GenerateListing ==
    /\ pc = "start"
    /\ \E r \in {lambda_handler(event, services, categories, listing_data,
                                mp_attributes)} :
           /\ response' = r.response
           /\ flat' = r.flat
           /\ category_match' = r.category_match
           /\ matcher_calls' = matcher_calls + r.matcher_calls
           /\ drafts' = drafts \o r.drafts
    /\ pc' = "done"
    /\ UNCHANGED <<event, services, categories, listing_data>>
    /\ UNCHANGED <<suggested_path, ai_attributes, mp_attributes, mapped, printed>>
    /\ UNCHANGED <<category_id, fetched, api_calls>>

NextHandler == GenerateListing

SpecHandler == InitHandler /\ [][NextHandler]_vars

(***************************************************************************)
(* Properties of the handler.                                              *)
(***************************************************************************)

\* The entries of flat that carry the candidate categoryId.
CandidateEntries ==
    {i \in 1..Len(flat) :
        "categoryId" \in DOMAIN listing_data /\ listing_data.categoryId = flat[i].id}

\* C10: when the candidate categoryId exists in the flattened taxonomy, the
\* handler does not run match_category_name and the draft it creates holds
\* the id and the path of that flat entry.
C10_CandidateIdUsedDirectly ==
    (pc = "done" /\ CandidateEntries # {}) =>
        /\ matcher_calls = 0
        /\ Len(drafts) = 1
        /\ \E i \in CandidateEntries :
               /\ drafts[1].category_id = flat[i].id
               /\ drafts[1].category_name = flat[i].name

\* The category the handler resolved has no attribute schema: for its id
\* fetch_category_attributes raises ValueError.
SchemaNotApplicable ==
    /\ category_match # None
    /\ "categoryId" \in DOMAIN category_match
    /\ fetch_category_attributes(category_match.categoryId, flat,
           [token_ok |-> TRUE, status_ok |-> TRUE,
            fields |-> mp_attributes]).raised = "ValueError"

\* C23: when fetch_category_attributes raises the not-applicable error for
\* the resolved category, the handler does not answer with the internal
\* error; it creates the draft, and the draft's attributes are [].
C23_NoSchemaStillCreatesDraft ==
    (pc = "done" /\ SchemaNotApplicable) =>
        /\ response.statusCode # 500
        /\ Len(drafts) = 1
        /\ drafts[1].attributes = <<>>

(***************************************************************************)
(* attribute_mapper.py: fetch_category_attributes                          *)
(***************************************************************************)

\* The lists of flat categories fetch_category_attributes is given: the
\* flattened trees and hand-built lists as in the tests (a level 3 without
\* its level 2, a level 2 without its level 1).
FlatLists ==
    {flatten_categories(t, "") : t \in Taxonomies \ {<<>>}}
    \cup {<<[id |-> 1, name |-> "Boot"], [id |-> 121, name |-> "Boot > Zeil > Mast"]>>,
          <<[id |-> 2, name |-> "Fiets"], [id |-> 11, name |-> "Auto > Audi"]>>,
          <<[id |-> 1, name |-> "Auto"], [id |-> 2, name |-> "Fiets"],
            [id |-> 21, name |-> "Fiets > Race"], [id |-> 12, name |-> "Boot > Zeil"]>>}

\* The category ids asked for: those of the lists and one of no list.
CategoryIds == {1, 2, 11, 12, 21, 111, 121, 99}

\* What the outside answers to a request for attributes.
AttributeApis ==
    [token_ok : BOOLEAN, status_ok : BOOLEAN,
     fields : {<<>>, <<EntryPool[1]>>, <<EntryPool[3], EntryPool[4]>>}]

InitFetch ==
    /\ pc = "start"
    /\ flat \in FlatLists
    /\ category_id \in CategoryIds
    /\ services \in AttributeApis
    /\ fetched = None
    /\ api_calls = <<>>
    /\ categories = <<>>
    /\ suggested_path = ""
    /\ category_match = None
    /\ MapperIdle
    /\ event = None
    /\ listing_data = None
    /\ response = None
    /\ drafts = <<>>
    /\ matcher_calls = 0

\* fetched = fetch_category_attributes(category_id, flat)
FetchAttributes ==
    /\ pc = "start"
    /\ \E r \in {fetch_category_attributes(category_id, flat, services)} :
           /\ fetched' = [raised |-> r.raised, message |-> r.message,
                          fields |-> r.fields]
           /\ api_calls' = api_calls \o
                  [i \in 1..Len(r.requests) |->
                      [op |-> "attributes", parent |-> r.requests[i][1],
                       category |-> r.requests[i][2]]]
    /\ pc' = "done"
    /\ UNCHANGED <<categories, flat, suggested_path, category_match>>
    /\ UNCHANGED <<ai_attributes, mp_attributes, mapped, printed>>
    /\ UNCHANGED <<event, services, listing_data, response, drafts, matcher_calls>>
    /\ UNCHANGED category_id

NextFetch == FetchAttributes

SpecFetch == InitFetch /\ [][NextFetch]_vars

(***************************************************************************)
(* Properties of fetch_category_attributes.                                *)
(***************************************************************************)

\* The entries of flat that carry the category id asked for.
Targets == {i \in 1..Len(flat) : flat[i].id = category_id}

\* The number of " > "-delimited segments of a path.
SegmentsOf(path) == Count(path, " > ") + 1

\* The level-1 entries of flat whose path is the one given.
RootsNamed(path) ==
    {i \in 1..Len(flat) : flat[i].name = path /\ SegmentsOf(flat[i].name) = 1}

\* C11: for a category whose path does not have exactly two segments,
\* fetch_category_attributes raises the ValueError that names level 2
\* categories and issues no request.
C11_NotLevelTwoRaises ==
    pc = "done" =>
        \A i \in Targets :
            SegmentsOf(flat[i].name) # 2 =>
                /\ fetched.raised = "ValueError"
                /\ fetched.message = "level 2 categories"
                /\ api_calls = <<>>

\* The attributes of a level-3 category have been asked for.
C11_Witness ==
    /\ pc = "done"
    /\ \E i \in Targets : SegmentsOf(flat[i].name) = 3
    /\ fetched.raised = "ValueError"

\* C12: for a level-2 category c with path "P > C", every request issued is
\* for the pair (p, c), p the id of the level-1 entry with path P, and one
\* is issued when a token is granted; without such an entry the function
\* raises and issues no request.
C12_RequestForParentAndCategory ==
    pc = "done" =>
        \A i \in Targets :
            SegmentsOf(flat[i].name) = 2 =>
                LET P == Split(flat[i].name, " > ")[1]
                IN  IF RootsNamed(P) = {}
                    THEN fetched.raised # "" /\ api_calls = <<>>
                    ELSE /\ \A k \in 1..Len(api_calls) :
                                /\ api_calls[k].category = category_id
                                /\ \A j \in RootsNamed(P) :
                                       api_calls[k].parent = flat[j].id
                         /\ services.token_ok => Len(api_calls) = 1

\* A request for a level-2 category under the second root has been issued.
C12_Witness ==
    /\ pc = "done"
    /\ Len(api_calls) = 1
    /\ api_calls[1].parent # flat[1].id
    /\ fetched.raised = ""

\* A level-2 category without its level-1 entry has been asked for.
C12_WitnessNoParent ==
    /\ pc = "done"
    /\ \E i \in Targets :
           /\ SegmentsOf(flat[i].name) = 2
           /\ RootsNamed(Split(flat[i].name, " > ")[1]) = {}

(***************************************************************************)
(* Properties of flatten_categories.                                       *)
(***************************************************************************)

\* The children of a node of the category tree.
ChildrenOf(node) ==
    IF "_embedded" \in DOMAIN node THEN node["_embedded"]["mp:category"] ELSE <<>>

RECURSIVE Positions(_)
\* The nodes of a forest, each as the sequence of child indices that leads
\* to it from the roots.
Positions(cats) ==
    UNION {{<<i>>} \cup {<<i>> \o q : q \in Positions(ChildrenOf(cats[i]))} :
              i \in 1..Len(cats)}

RECURSIVE NodeAt(_, _)
NodeAt(cats, pos) ==
    IF Len(pos) = 1 THEN cats[pos[1]]
    ELSE NodeAt(ChildrenOf(cats[pos[1]]), Tail(pos))

\* The Dutch label of a node, its name when it has none.
NodeLabel(node) ==
    IF "nl-NL" \in DOMAIN node.labels THEN node.labels["nl-NL"] ELSE node.name

\* Depth-first pre-order with the source child order: a node comes before
\* its descendants, and the subtree of a child before the next child.
Precedes(p, q) ==
    \E k \in 1..Len(q) :
        /\ \A i \in 1..(k - 1) : i <= Len(p) /\ p[i] = q[i]
        /\ \/ (k = Len(p) + 1)
           \/ (k <= Len(p) /\ p[k] < q[k])

\* The place of a node in that order.
RankOf(pos) ==
    1 + Cardinality({p \in Positions(categories) : Precedes(p, pos)})

MaxTitleLength == 80
PostcodeLength == 6

\* len(postcode.replace(' ', ''))
LenWithoutBlanks(str) == Len(str) - Count(str, " ")

\* validate_advertisement_data: the list of validation errors.
validate_advertisement_data(listing, postcode, priceModel) ==
    (IF Get(listing, "title", "") = "" THEN <<"Title is required">>
     ELSE IF Len(listing.title) > MaxTitleLength
     THEN <<"Title must be 80 characters or less">> ELSE <<>>)
    \o (IF Get(listing, "description", "") = ""
        THEN <<"Description is required">> ELSE <<>>)
    \o (IF Get(listing, "categoryId", 0) = 0
        THEN <<"Category ID is required">> ELSE <<>>)
    \o (IF postcode = "" THEN <<"Postcode is required">>
        ELSE IF LenWithoutBlanks(postcode) # PostcodeLength
        THEN <<"Postcode must be 6 characters (including space)">> ELSE <<>>)
    \o (IF priceModel = <<>> THEN <<"Price model is required">>
        ELSE IF "modelType" \notin DOMAIN priceModel
        THEN <<"Price model must include modelType">>
        ELSE IF priceModel.modelType \notin {"fixed", "bidding", "notApplicable"}
        THEN <<"Invalid price model type">> ELSE <<>>)

\* Lines 156-159: the entries of the schema flagged as required.
required_attrs(category_attributes) ==
    InOrder(category_attributes,
            {i \in 1..Len(category_attributes) :
                Get(category_attributes[i], "required", FALSE)})

\* Lines 161-163: the keys of the listing's attributes.
provided_attr_keys(listing) ==
    [i \in 1..Len(Get(listing, "attributes", <<>>)) |-> listing.attributes[i].key]

\* Lines 165-168: the keys of the required entries that the listing does
\* not provide.
missing_required(category_attributes, listing) ==
    With(required_attrs(category_attributes),
         LAMBDA required :
             With(InOrder(required,
                          {k \in 1..Len(required) :
                              ~Contains(provided_attr_keys(listing), required[k].key)}),
                  LAMBDA missing : [i \in 1..Len(missing) |-> missing[i].key]))

\* What a run of a publishing handler leaves: the response, with its
\* "missingAttributes" or "details" as details, and the requests it issued.
Published(statusCode, error, missing, calls) ==
    [response |-> [statusCode |-> statusCode, error |-> error,
                   details |-> missing],
     api_calls |-> calls]

\* The request create_advertisement sends.
CreateCall(cat_id, attributes, priceModel) ==
    [op |-> "create_advertisement", category |-> cat_id,
     attributes |-> attributes, priceModel |-> priceModel]

\* The requests of a fetch as entries of api_calls.
AttributeCalls(requests) ==
    [i \in 1..Len(requests) |->
        [op |-> "attributes", parent |-> requests[i][1],
         category |-> requests[i][2]]]

\* Lines 116-120: the asking price given in euros turned into cents.
price_in_cents(priceModel) ==
    IF priceModel # <<>> /\ "askingPrice" \in DOMAIN priceModel
    THEN [priceModel EXCEPT !.askingPrice = @ * 100]
    ELSE priceModel

\* Lines 188-286: the images are uploaded, then the advertisement is
\* created.
upload_and_create(listing, priceModel, svc, calls) ==
    IF ~svc.s3_ok THEN Published(500, "Failed to upload images", <<>>, calls)
    ELSE IF ~svc.create_ok
    THEN Published(500, "Failed to create advertisement", <<>>,
                   calls \o <<CreateCall(listing.categoryId,
                                         Get(listing, "attributes", <<>>), priceModel)>>)
    ELSE Published(200, "", <<>>,
                   calls \o <<CreateCall(listing.categoryId,
                                         Get(listing, "attributes", <<>>), priceModel)>>)

\* Lines 146-186: the check of the required attributes of the category.  A
\* ValueError of fetch_category_attributes skips the check, any other
\* exception ends in the handler's `except Exception`.
check_required_and_create(listing, priceModel, cats, svc) ==
    With(fetch_category_attributes(listing.categoryId, flatten_categories(cats, ""), svc),
         LAMBDA got :
             IF got.raised = "ValueError"
             THEN upload_and_create(listing, priceModel, svc, <<>>)
             ELSE IF got.raised # ""
             THEN Published(500, "Internal server error", <<>>,
                            AttributeCalls(got.requests))
             ELSE IF missing_required(got.fields, listing) # <<>>
             THEN Published(400, "Missing required category attributes",
                            missing_required(got.fields, listing),
                            AttributeCalls(got.requests))
             ELSE upload_and_create(listing, priceModel, svc,
                                    AttributeCalls(got.requests)))

\* Lines 122-125: the category override, when given, replaces categoryId.
with_override(body) ==
    IF "categoryOverride" \in DOMAIN body
    THEN [k \in DOMAIN body.listingData \cup {"categoryId"} |->
             IF k = "categoryId" THEN body.categoryOverride ELSE body.listingData[k]]
    ELSE body.listingData

\* lambda_handler of create_advertisement_lambda.py
create_advertisement_lambda(ev, cats, svc) ==
    IF ev.httpMethod = "OPTIONS" THEN Published(200, "", <<>>, <<>>)
    ELSE IF ~ev.json THEN Published(400, "Invalid JSON in request body", <<>>, <<>>)
    ELSE IF Get(ev.body, "listingData", <<>>) = <<>>
    THEN Published(400, "listingData is required", <<>>, <<>>)
    ELSE IF Get(ev.body, "image", "") = "" /\ Get(ev.body, "images", <<>>) = <<>>
    THEN Published(400, "At least one image is required (image or images)", <<>>, <<>>)
    ELSE IF Get(ev.body, "userDetails", <<>>) = <<>>
    THEN Published(400, "userDetails is required", <<>>, <<>>)
    ELSE IF Get(ev.body, "userId", "") = ""
    THEN Published(400, "userId is required for authorization", <<>>, <<>>)
    ELSE IF validate_advertisement_data(
                with_override(ev.body),
                Get(ev.body.userDetails, "postcode", ""),
                price_in_cents(Get(ev.body.userDetails, "priceModel", <<>>))) # <<>>
    THEN Published(400, "Validation failed", <<>>, <<>>)
    ELSE check_required_and_create(
             with_override(ev.body),
             price_in_cents(Get(ev.body.userDetails, "priceModel", <<>>)),
             cats, svc)

(***************************************************************************)
(* draft_storage.py: validate_draft_for_publishing, and                    *)
(* draft_management_lambda.py: handle_publish_draft                        *)
(***************************************************************************)

MaxDraftTitleLength == 60
EuroLimit == 1000

\* validate_draft_for_publishing rejecting only a negative asking price.
validate_draft_for_publishing_zero_allowed(draft) ==
    (IF Strip(draft.title) = "" THEN <<"Title is required">>
     ELSE IF Len(draft.title) > MaxDraftTitleLength
     THEN <<"Title must be 60 characters or less">> ELSE <<>>)
    \o (IF Strip(draft.description) = "" THEN <<"Description is required">> ELSE <<>>)
    \o (IF draft.category_id = 0 THEN <<"Category is required">> ELSE <<>>)
    \o (IF draft.postcode = "" \/ LenWithoutBlanks(draft.postcode) # PostcodeLength
        THEN <<"Valid postcode is required (6 characters)">> ELSE <<>>)
    \o (IF draft.price_model = <<>> \/ "askingPrice" \notin DOMAIN draft.price_model
        THEN <<"Price is required">>
        ELSE IF draft.price_model.askingPrice < 0
        THEN <<"Price must be greater than 0">> ELSE <<>>)
    \o (IF draft.images = <<>> THEN <<"At least one image is required">> ELSE <<>>)

\* validate_draft_for_publishing: the list of validation errors.
validate_draft_for_publishing(draft) ==
    (IF Strip(draft.title) = "" THEN <<"Title is required">>
     ELSE IF Len(draft.title) > MaxDraftTitleLength
     THEN <<"Title must be 60 characters or less">> ELSE <<>>)
    \o (IF Strip(draft.description) = "" THEN <<"Description is required">> ELSE <<>>)
    \o (IF draft.category_id = 0 THEN <<"Category is required">> ELSE <<>>)
    \o (IF draft.postcode = "" \/ LenWithoutBlanks(draft.postcode) # PostcodeLength
        THEN <<"Valid postcode is required (6 characters)">> ELSE <<>>)
    \o (IF draft.price_model = <<>> \/ Get(draft.price_model, "askingPrice", 0) = 0
        THEN <<"Price is required">>
        ELSE IF draft.price_model.askingPrice <= 0
        THEN <<"Price must be greater than 0">> ELSE <<>>)
    \o (IF draft.images = <<>> THEN <<"At least one image is required">> ELSE <<>>)

\* get_draft without the verification of the owner (lines 184-187).
get_draft_of_any_owner(store, draft_id, user_id) ==
    IF \E i \in 1..Len(store) : store[i].draft_id = draft_id
    THEN store[CHOOSE i \in 1..Len(store) : store[i].draft_id = draft_id]
    ELSE None

\* get_draft: the stored draft with the id when the user owns it, or None.
get_draft(store, draft_id, user_id) ==
    IF \E i \in 1..Len(store) :
           store[i].draft_id = draft_id /\ Get(store[i], "user_id", "") = user_id
    THEN store[CHOOSE i \in 1..Len(store) :
                   /\ store[i].draft_id = draft_id
                   /\ Get(store[i], "user_id", "") = user_id]
    ELSE None

\* delete_draft: the store without the draft, when the user owns it.
delete_draft(store, draft_id, user_id) ==
    IF get_draft(store, draft_id, user_id) = None THEN store
    ELSE InOrder(store, {i \in 1..Len(store) : store[i].draft_id # draft_id})

\* Lines 444-453: an asking price below 1000 is taken as euros and turned
\* into cents; a missing modelType becomes "fixed".
publish_price_model(priceModel) ==
    With(IF "askingPrice" \in DOMAIN priceModel /\ priceModel.askingPrice < EuroLimit
         THEN [priceModel EXCEPT !.askingPrice = @ * 100]
         ELSE priceModel,
         LAMBDA pm :
             IF Get(pm, "modelType", "") = ""
             THEN [k \in DOMAIN pm \cup {"modelType"} |->
                      IF k = "modelType" THEN "fixed" ELSE pm[k]]
             ELSE pm)

\* handle_publish_draft: the response, the requests issued and the store
\* of drafts it leaves.
handle_publish_draft(store, ev, svc) ==
    With(IF get_draft(store, ev.draft_id, ev.marktplaats_user_id) # None
         THEN get_draft(store, ev.draft_id, ev.marktplaats_user_id)
         ELSE get_draft(store, ev.draft_id, ev.internal_user_id),
         LAMBDA draft :
             IF draft = None
             THEN Published(404, "Draft not found", <<>>, <<>>) @@ [drafts |-> store]
             ELSE IF validate_draft_for_publishing(draft) # <<>>
             THEN Published(400, "Draft validation failed",
                            validate_draft_for_publishing(draft), <<>>)
                  @@ [drafts |-> store]
             ELSE IF ~svc.create_ok
             THEN Published(500, "Failed to publish draft", <<>>,
                            <<CreateCall(draft.category_id, draft.attributes,
                                         publish_price_model(draft.price_model))>>)
                  @@ [drafts |-> store]
             ELSE Published(200, "", <<>>,
                            <<CreateCall(draft.category_id, draft.attributes,
                                         publish_price_model(draft.price_model))>>)
                  @@ [drafts |->
                         IF ev.deleteDraft
                         THEN delete_draft(delete_draft(store, ev.draft_id,
                                                        ev.marktplaats_user_id),
                                           ev.draft_id, ev.internal_user_id)
                         ELSE store])

(***************************************************************************)
(* The inputs of the two publishing handlers.                              *)
(***************************************************************************)

\* Schema entries in the order of the schema: as the service answers
\* them, flagged with "mandatory", and flagged with the "required" that
\* the create-advertisement handler reads.
RequiredPool == <<
    [key |-> "brand", labels |-> nl("Merk"), type |-> "LIST", mandatory |-> TRUE],
    [key |-> "model", labels |-> nl("Model"), type |-> "STRING", mandatory |-> FALSE],
    [key |-> "conditie", labels |-> nl("Conditie"), required |-> TRUE],
    [key |-> "merk", labels |-> nl("Merk"), required |-> TRUE],
    [key |-> "kleur", labels |-> nl("Kleur")]
>>

\* The schemas of a category: entries of the pool in its order, and one in
\* another order.
RequiredSchemas ==
    {InOrder(RequiredPool, ix) :
        ix \in {ix \in SUBSET (1..Len(RequiredPool)) : Cardinality(ix) <= MaxSchema}}
    \cup {<<RequiredPool[4], RequiredPool[3]>>}

\* The attributes a listing carries.
ListingAttrPool == <<
    [key |-> "conditie", value |-> "gebruikt"],
    [key |-> "merk", value |-> "BMW"],
    [key |-> "brand", value |-> "bmw"]
>>

ListingAttributes ==
    {InOrder(ListingAttrPool, ix) :
        ix \in {ix \in SUBSET (1..Len(ListingAttrPool)) : Cardinality(ix) <= MaxAttrs}}

\* The category trees of the publishing handlers: those with a level 3.
PublishTaxonomies ==
    {t \in Taxonomies : \E i \in 1..Len(flatten_categories(t, "")) :
                            Count(flatten_categories(t, "")[i].name, " > ") = 2}

UserDetails == [postcode |-> "1234 AB",
                priceModel |-> [modelType |-> "fixed", askingPrice |-> 150]]

\* The request bodies of the create-advertisement handler: complete ones
\* for the categories of the trees and one of no tree, with and without a
\* category override, and incomplete ones.
CreateBodies ==
    {[listingData |-> [title |-> "Audi A4", description |-> "Nette auto",
                       categoryId |-> c, attributes |-> a],
      image |-> "base64", userDetails |-> UserDetails, userId |-> "u1"] @@ o :
        c \in {1, 12, 121, 99}, a \in ListingAttributes,
        o \in {<<>>, [categoryOverride |-> 11]}}
    \cup {[listingData |-> [title |-> "Audi A4", description |-> "Nette auto",
                            categoryId |-> 12],
           images |-> <<"base64", "base64">>, userDetails |-> UserDetails,
           userId |-> "u1"],
          [listingData |-> [title |-> "", description |-> "Nette auto",
                            categoryId |-> 12, attributes |-> <<>>],
           image |-> "base64", userDetails |-> UserDetails, userId |-> "u1"],
          [listingData |-> [title |-> "Audi A4", description |-> "Nette auto",
                            attributes |-> <<>>],
           image |-> "base64", userDetails |-> UserDetails, userId |-> "u1"],
          [listingData |-> [title |-> "Audi A4", description |-> "Nette auto",
                            categoryId |-> 12, attributes |-> <<>>],
           image |-> "base64", userDetails |-> [postcode |-> "1234"],
           userId |-> "u1"],
          [listingData |-> [title |-> "Audi A4", description |-> "Nette auto",
                            categoryId |-> 12, attributes |-> <<>>],
           userDetails |-> UserDetails, userId |-> "u1"],
          [listingData |-> [title |-> "Audi A4", description |-> "Nette auto",
                            categoryId |-> 12, attributes |-> <<>>],
           image |-> "base64", userId |-> "u1"],
          [listingData |-> [title |-> "Audi A4", description |-> "Nette auto",
                            categoryId |-> 12, attributes |-> <<>>],
           image |-> "base64", userDetails |-> UserDetails],
          [image |-> "base64", userDetails |-> UserDetails, userId |-> "u1"]}

CreateEvents ==
    {[kind |-> "create", httpMethod |-> "POST", json |-> TRUE, body |-> b] :
        b \in CreateBodies}
    \cup {[kind |-> "create", httpMethod |-> "OPTIONS", json |-> TRUE, body |-> <<>>],
          [kind |-> "create", httpMethod |-> "POST", json |-> FALSE, body |-> <<>>]}

\* The price models of the stored drafts: those the generate-listing
\* handler builds with and without an estimate, and none.
DraftPriceModels ==
    {price_model([suggestedPricingModel |-> m] @@ e) :
        m \in {"fixed", "bidding"},
        e \in {<<>>, [estimatedPrice |-> 150], [estimatedPrice |-> 2500]}}
    \cup {<<>>}

\* The stored drafts: complete but for their attributes, price model and
\* images, for categories of the three levels; and one without a title.
StoredDrafts ==
    {[draft_id |-> "d1", user_id |-> "mp1", title |-> "Audi A4",
      description |-> "Nette auto", category_id |-> c, category_name |-> "",
      attributes |-> a, price_model |-> pm, postcode |-> DefaultPostcode,
      images |-> im, ai_generated |-> TRUE, status |-> "draft"] :
        c \in {1, 12, 121}, a \in ListingAttributes, pm \in DraftPriceModels,
        im \in {<<>>, <<"image_url">>}}
    \cup {[draft_id |-> "d1", user_id |-> "mp1", title |-> " ",
           description |-> "Nette auto", category_id |-> 12, category_name |-> "",
           attributes |-> <<>>, price_model |-> <<>>, postcode |-> "",
           images |-> <<>>, ai_generated |-> TRUE, status |-> "draft"]}

PublishEvents ==
    {[kind |-> "publish", draft_id |-> "d1", marktplaats_user_id |-> u,
      internal_user_id |-> "u1", deleteDraft |-> del] :
        u \in {"mp1", "mp2"}, del \in BOOLEAN}

\* What the outside answers: to the request for the attributes of the
\* category (its schema), to the upload of the images and to
\* create_advertisement.
PublishServices ==
    [token_ok : BOOLEAN, status_ok : BOOLEAN, s3_ok : BOOLEAN,
     create_ok : BOOLEAN, fields : RequiredSchemas]

InitPublish ==
    /\ pc = "start"
    /\ categories \in PublishTaxonomies
    /\ services \in PublishServices
    /\ \/ /\ event \in CreateEvents
          /\ drafts = <<>>
       \/ /\ event \in PublishEvents
          /\ drafts \in {<<d>> : d \in StoredDrafts}
          /\ services.token_ok /\ services.status_ok /\ services.s3_ok
    /\ response = None
    /\ api_calls = <<>>
    /\ flat = <<>>
    /\ suggested_path = ""
    /\ category_match = None
    /\ MapperIdle
    /\ listing_data = None
    /\ matcher_calls = 0
    /\ category_id = 0
    /\ fetched = None

\* One request to the create-advertisement handler.
CreateAdvertisement ==
    /\ pc = "start"
    /\ event.kind = "create"
    /\ \E r \in {create_advertisement_lambda(event, categories, services)} :
           /\ response' = r.response
           /\ api_calls' = api_calls \o r.api_calls
    /\ pc' = "done"
    /\ UNCHANGED <<categories, flat, suggested_path, category_match>>
    /\ UNCHANGED <<ai_attributes, mp_attributes, mapped, printed>>
    /\ UNCHANGED <<event, services, listing_data, drafts, matcher_calls>>
    /\ UNCHANGED <<category_id, fetched>>

\* One request to publish a draft.
PublishDraft ==
    /\ pc = "start"
    /\ event.kind = "publish"
    /\ \E r \in {handle_publish_draft(drafts, event, services)} :
           /\ response' = r.response
           /\ api_calls' = api_calls \o r.api_calls
           /\ drafts' = r.drafts
    /\ pc' = "done"
    /\ UNCHANGED <<categories, flat, suggested_path, category_match>>
    /\ UNCHANGED <<ai_attributes, mp_attributes, mapped, printed>>
    /\ UNCHANGED <<event, services, listing_data, matcher_calls>>
    /\ UNCHANGED <<category_id, fetched>>

NextPublish == CreateAdvertisement \/ PublishDraft

SpecPublish == InitPublish /\ [][NextPublish]_vars

(***************************************************************************)
(* Properties of the publishing handlers.                                  *)
(***************************************************************************)

\* The attributes of the listing of a create request.
RequestAttributes == Get(event.body.listingData, "attributes", <<>>)

\* The schema entry is flagged as required: with "mandatory" by the
\* service, or with "required".
FlaggedRequired(e) == Get(e, "mandatory", FALSE) \/ Get(e, "required", FALSE)

\* The schema entries flagged as required whose key is not among the keys
\* of the attributes attrs, in the order of the schema.
RequiredLacking(schema, attrs) ==
    SelectSeq(schema,
              LAMBDA e : /\ FlaggedRequired(e)
                         /\ \A j \in 1..Len(attrs) : attrs[j].key # e.key)

KeysOf(entries) == [i \in 1..Len(entries) |-> entries[i].key]

\* The create request got the schema of its category.
SchemaFetched ==
    /\ pc = "done"
    /\ event.kind = "create"
    /\ services.status_ok
    /\ \E i \in 1..Len(api_calls) : api_calls[i].op = "attributes"

\* C14: the missing-required list of a create request that got the schema
\* of its category is the keys of the schema entries flagged as required
\* that are not among the keys of the listing's attributes, in the order
\* of the schema; the request is refused for missing attributes exactly
\* when that list is not empty, so the list is empty exactly when every
\* required key is present.
C14_MissingRequiredInSchemaOrder ==
    SchemaFetched =>
        LET lacking == KeysOf(RequiredLacking(services.fields, RequestAttributes))
        IN  /\ (response.error = "Missing required category attributes")
                   <=> (lacking # <<>>)
            /\ lacking # <<>> =>
                   /\ response.statusCode = 400
                   /\ response.details = lacking
            /\ (lacking = <<>>) <=>
                   \A i \in 1..Len(services.fields) :
                       FlaggedRequired(services.fields[i]) =>
                           \E j \in 1..Len(RequestAttributes) :
                               RequestAttributes[j].key = services.fields[i].key

\* The listing a request is about: that of the body with the override of
\* a create request, the stored draft of a publish request.
ListingOf ==
    IF event.kind = "create"
    THEN [categoryId |-> IF "categoryOverride" \in DOMAIN event.body
                         THEN event.body.categoryOverride
                         ELSE Get(event.body.listingData, "categoryId", 0),
          attributes |-> RequestAttributes]
    ELSE [categoryId |-> drafts[1].category_id,
          attributes |-> drafts[1].attributes]

\* The request passes every check but that of the required attributes:
\* the body of a create request is complete, the draft of a publish
\* request is found and valid.
WellFormedRequest ==
    IF event.kind = "create"
    THEN /\ event.httpMethod = "POST" /\ event.json
         /\ "listingData" \in DOMAIN event.body
         /\ {"title", "description", "categoryId"} \subseteq DOMAIN event.body.listingData
    ELSE /\ drafts # <<>>
         /\ event.marktplaats_user_id = drafts[1].user_id

\* The category is a level-2 entry of the tree below a root.
LevelTwoCategory(cat_id) ==
    \E i \in 1..Len(flatten_categories(categories, "")) :
        LET e == flatten_categories(categories, "")[i]
        IN  /\ e.id = cat_id
            /\ Count(e.name, " > ") = 1

\* The listing lacks a required attribute of its level-2 category, whose
\* schema the service answers.
LacksRequired ==
    /\ pc = "start"
    /\ WellFormedRequest
    /\ services.token_ok /\ services.status_ok
    /\ LevelTwoCategory(ListingOf.categoryId)
    /\ RequiredLacking(services.fields, ListingOf.attributes) # <<>>

Created(calls) == \E i \in 1..Len(calls) : calls[i].op = "create_advertisement"

\* C15: a listing that lacks a required attribute of its level-2 category
\* is never published: on both publish paths the request ends with a
\* validation failure and create_advertisement is not called.
C15_LackingRequiredNeverPublished ==
    [][LacksRequired => /\ response'.statusCode = 400
                        /\ ~Created(api_calls')]_vars

\* C19: a draft whose price model has askingPrice 0 is never published:
\* the request to publish it calls no create_advertisement and leaves the
\* draft stored, and when the draft is found the request ends with the
\* validation failure that names the price.
C19_ZeroPriceNeverPublished ==
    [][(/\ pc = "start" /\ event.kind = "publish"
        /\ drafts[1].price_model # <<>>
        /\ drafts[1].price_model.askingPrice = 0)
           => /\ ~Created(api_calls')
              /\ response'.statusCode # 200
              /\ drafts' = drafts
              /\ event.marktplaats_user_id = drafts[1].user_id =>
                     /\ response'.statusCode = 400
                     /\ response'.error = "Draft validation failed"
                     /\ Contains(response'.details, "Price is required")
                     /\ Contains(validate_draft_for_publishing(drafts[1]),
                                 "Price is required")]_vars

\* A draft complete but for its price, built without an estimate, refused
\* for its price alone.
C19_Witness ==
    /\ pc = "done"
    /\ event.kind = "publish"
    /\ drafts # <<>>
    /\ drafts[1].price_model # <<>>
    /\ drafts[1].price_model.askingPrice = 0
    /\ response.statusCode = 400
    /\ response.details = <<"Price is required">>

\* C25: for a draft whose asking price is a whole number of euros from 1 to
\* 50000, the askingPrice handle_publish_draft passes to
\* create_advertisement is 100 times that number.
C25_PublishedPriceInCents ==
    [][(/\ pc = "start" /\ event.kind = "publish"
        /\ drafts[1].price_model # <<>>
        /\ drafts[1].price_model.askingPrice \in MinPrice..MaxPrice)
           => \A i \in 1..Len(api_calls') :
                  api_calls'[i].op = "create_advertisement" =>
                      api_calls'[i].priceModel.askingPrice
                          = 100 * drafts[1].price_model.askingPrice]_vars

(***************************************************************************)
(* generate_listing_lambda.py, lines 149-220: the sanitation of the        *)
(* estimated price and of the price range, and the price model.  A value   *)
(* that is None in the code is a key left out here.                        *)
(***************************************************************************)

\* Lines 155-157: the estimate, when there is one, clamped.
sanitize_estimated_price(ld) ==
    IF "estimatedPrice" \in DOMAIN ld
    THEN [estimatedPrice |-> clamp_price(ld.estimatedPrice)]
    ELSE <<>>

\* Lines 159-168 without the swap of lines 165-166.
sanitize_price_range_unswapped(ld) ==
    IF "priceRange" \notin DOMAIN ld THEN <<>>
    ELSE IF /\ ld.priceRange.shape = "dict"
            /\ {"min", "max"} \subseteq DOMAIN ld.priceRange.value
    THEN [priceRange |->
             [ld.priceRange.value EXCEPT !.min = clamp_price(@),
                                         !.max = clamp_price(@)]]
    ELSE <<>>

\* Lines 159-168: a range that is a dict with "min" and "max" has both
\* clamped, and swapped when the minimum is then above the maximum; any
\* other range becomes None.
sanitize_price_range(ld) ==
    IF "priceRange" \notin DOMAIN ld THEN <<>>
    ELSE IF /\ ld.priceRange.shape = "dict"
            /\ {"min", "max"} \subseteq DOMAIN ld.priceRange.value
    THEN With([ld.priceRange.value EXCEPT !.min = clamp_price(@),
                                          !.max = clamp_price(@)],
              LAMBDA clamped :
                  [priceRange |->
                      IF clamped.min > clamped.max
                      THEN [clamped EXCEPT !.min = clamped.max,
                                           !.max = clamped.min]
                      ELSE clamped])
    ELSE <<>>

\* Lines 149-220 and 241-246: what the handler makes of the prices of the
\* listing data.
sanitize_prices(ld) ==
    sanitize_estimated_price(ld) @@ sanitize_price_range(ld)
    @@ [priceModel |-> price_model(ld),
        suggestedPricingModel |-> ld.suggestedPricingModel]

\* How far below MinPrice and above MaxPrice the estimates go.
PriceMargin == 10

\* The integers an estimate may be.
Estimates == (MinPrice - PriceMargin)..(MaxPrice + PriceMargin)

\* The integers the ends of a range may be.
RangeEnds == {-5, 0, 1, 100, 200, MaxPrice, 60000}

\* The price ranges of the listing data: dicts with both ends, with one
\* end or with a confidence besides, and a range that is not a dict.
PriceRanges ==
    {[shape |-> "dict", value |-> [min |-> a, max |-> b]] :
        a \in RangeEnds, b \in RangeEnds}
    \cup {[shape |-> "dict", value |-> [min |-> 100]],
          [shape |-> "dict", value |-> [min |-> 200, max |-> 100, currency |-> "EUR"]],
          [shape |-> "str", value |-> "100-200"]}

\* The listing data as far as the prices go: every estimate without a
\* range, and some estimates with every range.
PricedListings ==
    {[suggestedPricingModel |-> m] @@ e :
        m \in {"fixed", "bidding"},
        e \in {<<>>} \cup [estimatedPrice : Estimates]}
    \cup {[suggestedPricingModel |-> m, priceRange |-> r] @@ e :
             m \in {"fixed", "bidding"}, r \in PriceRanges,
             e \in {<<>>} \cup [estimatedPrice : {0, 150, 60000}]}

InitPrice ==
    /\ pc = "start"
    /\ listing_data \in PricedListings
    /\ response = None
    /\ MatcherIdle
    /\ MapperIdle
    /\ event = None
    /\ services = None
    /\ drafts = <<>>
    /\ matcher_calls = 0
    /\ category_id = 0
    /\ fetched = None
    /\ api_calls = <<>>

\* The handler sanitizes the prices and builds the price model.
SanitizePrices ==
    /\ pc = "start"
    /\ response' = sanitize_prices(listing_data)
    /\ pc' = "done"
    /\ UNCHANGED <<categories, flat, suggested_path, category_match>>
    /\ UNCHANGED <<ai_attributes, mp_attributes, mapped, printed>>
    /\ UNCHANGED <<event, services, listing_data, drafts, matcher_calls>>
    /\ UNCHANGED <<category_id, fetched, api_calls>>

NextPrice == SanitizePrices

SpecPrice == InitPrice /\ [][NextPrice]_vars

(***************************************************************************)
(* Properties of the prices.                                               *)
(***************************************************************************)

InPriceBounds(p) == MinPrice <= p /\ p <= MaxPrice

\* The integer p brought into [MinPrice, MaxPrice].
Clamped(p) == IF p < MinPrice THEN MinPrice ELSE IF p > MaxPrice THEN MaxPrice ELSE p

\* The listing data carry a range with a minimum and a maximum.
HasRange ==
    /\ "priceRange" \in DOMAIN listing_data
    /\ listing_data.priceRange.shape = "dict"
    /\ {"min", "max"} \subseteq DOMAIN listing_data.priceRange.value

\* C16: after the sanitation, for every integer input, the estimate, if
\* there is one, is the input brought into [1, 50000]; the range, if
\* there is one with min and max, has both ends brought into [1, 50000]
\* and min <= max, the two being swapped when min is above max.
C16_PricesSanitized ==
    pc = "done" =>
        /\ "estimatedPrice" \in DOMAIN listing_data =>
               /\ "estimatedPrice" \in DOMAIN response
               /\ InPriceBounds(response.estimatedPrice)
               /\ response.estimatedPrice = Clamped(listing_data.estimatedPrice)
        /\ "estimatedPrice" \notin DOMAIN listing_data =>
               "estimatedPrice" \notin DOMAIN response
        /\ HasRange =>
               LET lo == Clamped(listing_data.priceRange.value.min)
                   hi == Clamped(listing_data.priceRange.value.max)
               IN  /\ "priceRange" \in DOMAIN response
                   /\ InPriceBounds(response.priceRange.min)
                   /\ InPriceBounds(response.priceRange.max)
                   /\ response.priceRange.min <= response.priceRange.max
                   /\ response.priceRange.min = (IF lo > hi THEN hi ELSE lo)
                   /\ response.priceRange.max = (IF lo > hi THEN lo ELSE hi)

\* The two examples at once: the estimate 60000 has become 50000 and the
\* range {min 200, max 100} has become {min 100, max 200}.
C16_Witness ==
    /\ pc = "done"
    /\ "estimatedPrice" \in DOMAIN listing_data
    /\ HasRange
    /\ listing_data.estimatedPrice = 60000
    /\ response.estimatedPrice = 50000
    /\ listing_data.priceRange.value = [min |-> 200, max |-> 100]
    /\ response.priceRange = [min |-> 100, max |-> 200]

\* C17: every price model of type bidding the handler builds from a
\* sanitized estimate in [1, 50000] has 1 <= minimalBid < askingPrice.
C17_MinimalBidBelowAskingPrice ==
    (/\ pc = "done"
     /\ "estimatedPrice" \in DOMAIN response
     /\ InPriceBounds(response.estimatedPrice)
     /\ response.priceModel.modelType = "bidding")
        => /\ 1 <= response.priceModel.minimalBid
           /\ response.priceModel.minimalBid < response.priceModel.askingPrice

(***************************************************************************)
(* pinecone_rag_utils.py, generate_listing_with_pinecone_rag: the category *)
(* of the best search result and the pricing model suggested for it.       *)
(***************************************************************************)

UpperCase == "ABCDEFGHIJKLMNOPQRSTUVWXYZ"
LowerCase == "abcdefghijklmnopqrstuvwxyz"

RECURSIVE Lower(_)
\* s.lower()
Lower(s) ==
    IF s = "" THEN s
    ELSE (IF \E i \in 1..Len(UpperCase) : Ch(UpperCase, i) = Ch(s, 1)
          THEN Ch(LowerCase, CHOOSE i \in 1..Len(UpperCase) : Ch(UpperCase, i) = Ch(s, 1))
          ELSE Ch(s, 1))
         \o Lower(SubSeq(s, 2, Len(s)))

\* sub in s
In(sub, s) == Occurrences(s, sub) # {}

\* Lines 262-267
bidding_suitable_keywords == <<
    "antiek", "kunst", "verzamelen", "vintage", "klassiek",
    "zeldzaam", "uniek", "limited", "exclusief", "collector",
    "handgemaakt", "design", "kunstwerk", "sieraden", "munten",
    "postzegels", "boeken", "platen", "vinyl", "memorabilia"
>>

\* Lines 270-274
bidding_unsuitable_keywords == <<
    "telefoon", "computer", "laptop", "tablet", "software",
    "kleding", "schoenen", "voeding", "tickets", "diensten",
    "verhuur", "baan", "stage", "cursus", "training"
>>

RECURSIVE keyword_points(_, _, _, _)
\* One loop of lines 278-284: the points for every keyword of the list
\* that is in the name or in the path.
keyword_points(keywords, category_name_lower, category_path, points) ==
    IF keywords = <<>> THEN 0
    ELSE (IF \/ In(Head(keywords), category_name_lower)
             \/ In(Head(keywords), category_path)
          THEN points ELSE 0)
         + keyword_points(Tail(keywords), category_name_lower, category_path, points)

\* Lines 277-284 with one point off for an unsuitable keyword.
bidding_score_unit_penalty(category_name_lower, category_path) ==
    keyword_points(bidding_suitable_keywords, category_name_lower, category_path, 1)
    - keyword_points(bidding_unsuitable_keywords, category_name_lower, category_path, 1)

\* Lines 277-284: one point for every suitable keyword in the name or the
\* path, two off for every unsuitable one.
bidding_score(category_name_lower, category_path) ==
    keyword_points(bidding_suitable_keywords, category_name_lower, category_path, 1)
    - keyword_points(bidding_unsuitable_keywords, category_name_lower, category_path, 2)

\* Lines 248-293 and 384-402: the category and the pricing model of the
\* final listing, for the answer of the category search.
suggest_pricing_model(found) ==
    IF found # <<>>
    THEN [categoryId |-> found[1].categoryId,
          category |-> found[1].categoryName,
          suggestedPricingModel |->
              IF bidding_score(Lower(found[1].categoryName),
                               Lower(Get(found[1], "categoryPath", ""))) > 0
              THEN "bidding" ELSE "fixed"]
    ELSE [categoryId |-> 1953,
          category |-> "Sport en Fitness",
          suggestedPricingModel |-> "fixed"]

\* How many categories the search answers at most.
MaxFound == 2

\* Names and paths of the categories the search answers.
FoundNames == {"Antiek en Kunst", "Kunstwerken", "ANTIEK", "Telefoons",
               "Vintage Kleding", "Vintage Design Kleding",
               "Design Vinyl Platen Laptops", "Loopbaan", "Sport en Fitness",
               "Boeken"}

FoundPaths == {"", "Verzamelen > Munten", "Kleding > Vintage Kleding",
               "ANTIEK EN KUNST > Antiek", "Computers en Software > Laptops"}

FoundCategories ==
    {[categoryId |-> 12, categoryName |-> n] : n \in FoundNames}
    \cup {[categoryId |-> 12, categoryName |-> n, categoryPath |-> p] :
             n \in FoundNames, p \in FoundPaths}

RECURSIVE FoundRest(_)
\* The answers after the best one, of up to n categories.
FoundRest(n) ==
    IF n = 0 THEN {<<>>}
    ELSE {<<>>} \cup
         {<<c>> \o r : c \in {[categoryId |-> 21, categoryName |-> "Telefoons"],
                               [categoryId |-> 11, categoryName |-> "Munten",
                                categoryPath |-> "Verzamelen > Munten"]},
                       r \in FoundRest(n - 1)}

\* What search_categories answers: nothing, or up to MaxFound categories,
\* the best first.
SearchAnswers ==
    {<<>>} \cup {<<b>> \o r : b \in FoundCategories, r \in FoundRest(MaxFound - 1)}

InitSuggest ==
    /\ pc = "start"
    /\ fetched \in SearchAnswers
    /\ listing_data = None
    /\ MatcherIdle
    /\ MapperIdle
    /\ event = None
    /\ services = None
    /\ response = None
    /\ drafts = <<>>
    /\ matcher_calls = 0
    /\ category_id = 0
    /\ api_calls = <<>>

\* generate_listing_with_pinecone_rag builds the final listing.
SuggestPricingModel ==
    /\ pc = "start"
    /\ listing_data' = suggest_pricing_model(fetched)
    /\ pc' = "done"
    /\ UNCHANGED <<categories, flat, suggested_path, category_match>>
    /\ UNCHANGED <<ai_attributes, mp_attributes, mapped, printed>>
    /\ UNCHANGED <<event, services, response, drafts, matcher_calls>>
    /\ UNCHANGED <<category_id, fetched, api_calls>>

NextSuggest == SuggestPricingModel

SpecSuggest == InitSuggest /\ [][NextSuggest]_vars

(***************************************************************************)
(* Properties of the suggested pricing model.                              *)
(***************************************************************************)

\* The keywords of the list that occur in the name or the path of the
\* best category, whatever the case of the letters.
KeywordsIn(keywords) ==
    {k \in {keywords[i] : i \in 1..Len(keywords)} :
        \/ In(k, Lower(fetched[1].categoryName))
        \/ /\ "categoryPath" \in DOMAIN fetched[1]
           /\ In(k, Lower(fetched[1].categoryPath))}

NetScore ==
    Cardinality(KeywordsIn(bidding_suitable_keywords))
    - 2 * Cardinality(KeywordsIn(bidding_unsuitable_keywords))

\* C18: the suggested pricing model is "bidding" exactly when the number
\* of suitable keywords occurring in the name or the path of the matched
\* category less twice the number of unsuitable ones is above 0, and
\* "fixed" otherwise; it is "fixed" when no category was found.
C18_BiddingIffPositiveNetScore ==
    pc = "done" =>
        /\ fetched = <<>> => listing_data.suggestedPricingModel = "fixed"
        /\ fetched # <<>> =>
               /\ listing_data.suggestedPricingModel \in {"bidding", "fixed"}
               /\ (listing_data.suggestedPricingModel = "bidding") <=> (NetScore > 0)

\* Two suitable keywords and one unsuitable one: the score is 0 and the
\* suggestion is "fixed".
C18_Witness ==
    /\ pc = "done"
    /\ fetched # <<>>
    /\ Cardinality(KeywordsIn(bidding_suitable_keywords)) = 2
    /\ Cardinality(KeywordsIn(bidding_unsuitable_keywords)) = 1
    /\ listing_data.suggestedPricingModel = "fixed"

(***************************************************************************)
(* draft_storage.py: update_draft.  The stored drafts are DraftListing     *)
(* objects; the updates name their fields as the table does (to_dict).     *)
(***************************************************************************)

\* Lines 98-115 (from_dict): the attribute of a DraftListing that holds
\* the field of the table.
AttributeOf ==
    [draftId |-> "draft_id", userId |-> "user_id", title |-> "title",
     description |-> "description", categoryId |-> "category_id",
     categoryName |-> "category_name", attributes |-> "attributes",
     priceModel |-> "price_model", postcode |-> "postcode",
     status |-> "status", images |-> "images", createdAt |-> "created_at",
     updatedAt |-> "updated_at", aiGenerated |-> "ai_generated"]

\* Line 261
protected_fields == {"draftId", "userId", "createdAt"}

\* Lines 273-292: the values of the update expression, ':updated_at' and
\* one ':field' for every field of the updates.
expression_values(updates, now) ==
    [n \in {":updated_at"} \cup {":" \o field : field \in DOMAIN updates} |->
        IF n = ":updated_at" THEN now
        ELSE updates[CHOOSE field \in DOMAIN updates : n = ":" \o field]]

\* table.update_item with ReturnValues ALL_NEW: the item with the fields
\* of the expression set, as a DraftListing.
update_item(draft, updates, now) ==
    [a \in DOMAIN draft |->
        IF \E field \in DOMAIN updates : AttributeOf[field] = a
        THEN updates[CHOOSE field \in DOMAIN updates : AttributeOf[field] = a]
        ELSE IF a = "updated_at" THEN now
        ELSE draft[a]]

\* update_draft: what it raises, the values of the update expression it
\* sends (None when it sends none), what it returns and the store it
\* leaves.
update_draft(store, draft_id, user_id, updates, now) ==
    IF DOMAIN updates \cap protected_fields # {}
    THEN [raised |-> "ValueError", values |-> None, returned |-> None,
          drafts |-> store]
    ELSE IF get_draft(store, draft_id, user_id) = None
    THEN [raised |-> "", values |-> None, returned |-> None, drafts |-> store]
    ELSE [raised |-> "",
          values |-> expression_values(updates, now),
          returned |-> update_item(get_draft(store, draft_id, user_id), updates, now),
          drafts |-> [i \in 1..Len(store) |->
                         IF store[i].draft_id = draft_id
                         THEN update_item(store[i], updates, now)
                         ELSE store[i]]]

\* The attributes of the test of the category change, and one more list.
DraftAttributes ==
    {<<>>,
     <<[key |-> "condition", value |-> "Gebruikt"],
       [key |-> "type", value |-> "Twin Tip"]>>,
     <<[key |-> "urgency", value |-> "urgency"]>>}

\* The stored drafts of the updates: of two categories, with and without
\* attributes.
UpdatableDrafts ==
    {[draft_id |-> "d1", user_id |-> "mp1", title |-> "Test Kiteboard",
      category_id |-> c, category_name |-> "Kitesurfen", attributes |-> a,
      updated_at |-> "2023-01-01T00:00:00"] :
        c \in {1404, 1505}, a \in DraftAttributes}

\* The updates: any of a title, a category with its name, attributes and
\* a protected field.
DraftUpdates ==
    {t @@ c @@ a @@ p :
        t \in {<<>>, [title |-> "Updated Title"]},
        c \in {<<>>} \cup
              {[categoryId |-> id, categoryName |-> "Antiek en Kunst"] :
                  id \in {1404, 1505}},
        a \in {<<>>} \cup [attributes : DraftAttributes],
        p \in {<<>>, [userId |-> "mp2"]}}

UpdateEvents ==
    [kind : {"update"}, draft_id : {"d1", "d2"}, user_id : {"mp1", "mp2"},
     updates : DraftUpdates, now : {"2023-01-01T12:00:00"}]

InitUpdate ==
    /\ pc = "start"
    /\ drafts \in {<<d>> : d \in UpdatableDrafts}
    /\ event \in UpdateEvents
    /\ response = None
    /\ MatcherIdle
    /\ MapperIdle
    /\ services = None
    /\ listing_data = None
    /\ matcher_calls = 0
    /\ category_id = 0
    /\ fetched = None
    /\ api_calls = <<>>

\* One call of update_draft.
UpdateDraft ==
    /\ pc = "start"
    /\ \E r \in {update_draft(drafts, event.draft_id, event.user_id,
                              event.updates, event.now)} :
           /\ response' = [raised |-> r.raised, values |-> r.values,
                           returned |-> r.returned]
           /\ drafts' = r.drafts
    /\ pc' = "done"
    /\ UNCHANGED <<categories, flat, suggested_path, category_match>>
    /\ UNCHANGED <<ai_attributes, mp_attributes, mapped, printed>>
    /\ UNCHANGED <<event, services, listing_data, matcher_calls>>
    /\ UNCHANGED <<category_id, fetched, api_calls>>

NextUpdate == UpdateDraft

SpecUpdate == InitUpdate /\ [][NextUpdate]_vars

(***************************************************************************)
(* Properties of update_draft.                                             *)
(***************************************************************************)

\* The call updates the stored draft: its owner asks and no field of the
\* updates is protected.
UpdateApplies ==
    /\ pc = "start"
    /\ event.draft_id = drafts[1].draft_id
    /\ event.user_id = drafts[1].user_id
    /\ DOMAIN event.updates \cap {"draftId", "userId", "createdAt"} = {}

\* The updates change the category of the stored draft.
CategoryChanges ==
    /\ "categoryId" \in DOMAIN event.updates
    /\ event.updates.categoryId # drafts[1].category_id

\* C20: update_draft writes the attributes of the draft thus: the empty
\* list when the updates change categoryId and carry no attributes; the
\* attributes of the updates when they change categoryId and carry some;
\* nothing, leaving the stored attributes, when categoryId is absent or
\* unchanged and no attributes are carried.
C20_AttributesOnCategoryChange ==
    [][UpdateApplies =>
          /\ (CategoryChanges /\ "attributes" \notin DOMAIN event.updates) =>
                 /\ ":attributes" \in DOMAIN response'.values
                 /\ response'.values[":attributes"] = <<>>
                 /\ drafts'[1].attributes = <<>>
          /\ (CategoryChanges /\ "attributes" \in DOMAIN event.updates) =>
                 /\ ":attributes" \in DOMAIN response'.values
                 /\ response'.values[":attributes"] = event.updates.attributes
                 /\ drafts'[1].attributes = event.updates.attributes
          /\ (~CategoryChanges /\ "attributes" \notin DOMAIN event.updates) =>
                 /\ ":attributes" \notin DOMAIN response'.values
                 /\ drafts'[1].attributes = drafts[1].attributes]_vars

\* The two cases of C20 in which attributes are carried or the category
\* stays.
AttributesWrittenAsCarried ==
    [][UpdateApplies =>
          /\ "attributes" \in DOMAIN event.updates =>
                 /\ response'.values[":attributes"] = event.updates.attributes
                 /\ drafts'[1].attributes = event.updates.attributes
          /\ "attributes" \notin DOMAIN event.updates =>
                 /\ ":attributes" \notin DOMAIN response'.values
                 /\ drafts'[1].attributes = drafts[1].attributes]_vars

(***************************************************************************)
(* attribute_mapper.py: _normalize_ai_attributes on every shape of input.  *)
(***************************************************************************)

\* How many items a list of AI attributes has at most.
MaxItems == 3

\* The items of a list of AI attributes: records with name and value, one
\* of them with a further key, records lacking one of the two or both, and
\* an item that is no dict (None).
ItemPool == {
    [name |-> "condition", value |-> "Gebruikt"],
    [name |-> "merk", value |-> "BMW"],
    [name |-> "kleur", value |-> "rood", confidence |-> "high"],
    [name |-> "model"],
    [value |-> "Golf"],
    [label |-> "Bouwjaar"],
    None
}

RECURSIVE ItemLists(_)
\* The lists of up to n items.
ItemLists(n) ==
    IF n = 0 THEN {<<>>}
    ELSE {<<>>} \cup {<<x>> \o r : x \in ItemPool, r \in ItemLists(n - 1)}

\* What the normalizer is given: a dict, a list, None or a string.
NormalizerInputs ==
    {[shape |-> "dict", items |-> d] : d \in AiItems}
    \cup {[shape |-> "list", items |-> l] : l \in ItemLists(MaxItems)}
    \cup {[shape |-> "none", items |-> <<>>], [shape |-> "str", items |-> <<>>]}

InitNormalize ==
    /\ pc = "start"
    /\ ai_attributes \in NormalizerInputs
    /\ mp_attributes = <<>>
    /\ mapped = <<>>
    /\ printed = <<>>
    /\ MatcherIdle
    /\ HandlerIdle

\* One call of _normalize_ai_attributes; response holds what it returns.
Normalize ==
    /\ pc = "start"
    /\ response' = normalize_ai_attributes(ai_attributes)
    /\ pc' = "done"
    /\ UNCHANGED <<categories, flat, suggested_path, category_match>>
    /\ UNCHANGED <<ai_attributes, mp_attributes, mapped, printed>>
    /\ UNCHANGED <<event, services, listing_data, drafts, matcher_calls>>
    /\ UNCHANGED <<category_id, fetched, api_calls>>

NextNormalize == Normalize

SpecNormalize == InitNormalize /\ [][NextNormalize]_vars

(***************************************************************************)
(* Properties of the normalizer.                                           *)
(***************************************************************************)

\* The positions of the list items that are records with name and value.
CarryBoth ==
    {i \in 1..Len(ai_attributes.items) :
        /\ ai_attributes.items[i] # None
        /\ {"name", "value"} \subseteq DOMAIN ai_attributes.items[i]}

\* The sequence sub is in s, in order.
SubsequenceOf(sub, s) ==
    \E idx \in SUBSET (1..Len(s)) : InOrder(s, idx) = sub

\* No element of the result lacks both name and value.
NoneLacksBoth ==
    \A j \in 1..Len(response) :
        "name" \in DOMAIN response[j] \/ "value" \in DOMAIN response[j]

\* The result for a map and for an input that is neither map nor list.
MapAndOtherNormalized ==
    /\ ai_attributes.shape = "dict" =>
           /\ Len(response) = Len(ai_attributes.items)
           /\ \A i \in 1..Len(response) :
                  response[i] = [name |-> ai_attributes.items[i][1],
                                 value |-> ai_attributes.items[i][2]]
    /\ ai_attributes.shape \notin {"dict", "list"} => response = <<>>

\* C21 as stated: a map gives one {name, value} record per entry; of a
\* list every record that carries name and value is kept unchanged and in
\* order and the entries lacking both are discarded; any other input
\* gives the empty list.
C21_RecordsKeptUnchanged ==
    pc = "done" =>
        /\ MapAndOtherNormalized
        /\ ai_attributes.shape = "list" =>
               /\ SubsequenceOf(InOrder(ai_attributes.items, CarryBoth), response)
               /\ NoneLacksBoth

\* The name and the value of the records at the positions idx, in order.
NamesAndValues(idx) ==
    [i \in 1..Cardinality(idx) |->
        [name |-> InOrder(ai_attributes.items, idx)[i].name,
         value |-> InOrder(ai_attributes.items, idx)[i].value]]

\* C21: a map gives one {name, value} record per entry; of a list the
\* name and the value of every record that carries both are kept, in
\* order and without the other keys of the record, and the entries
\* lacking both are discarded; any other input gives the empty list.
C21_NameAndValueKept ==
    pc = "done" =>
        /\ MapAndOtherNormalized
        /\ ai_attributes.shape = "list" =>
               /\ SubsequenceOf(NamesAndValues(CarryBoth), response)
               /\ NoneLacksBoth

\* A list of a record lacking both, a record with a further key and a
\* record with name and value only: the last two are kept, in order.
C21_Witness ==
    /\ pc = "done"
    /\ ai_attributes.shape = "list"
    /\ ai_attributes.items = <<[label |-> "Bouwjaar"],
                               [name |-> "kleur", value |-> "rood",
                                confidence |-> "high"],
                               [name |-> "merk", value |-> "BMW"]>>
    /\ response = <<[name |-> "kleur", value |-> "rood"],
                    [name |-> "merk", value |-> "BMW"]>>

(***************************************************************************)
(* Properties of the mapper on the two shapes of its input.                *)
(***************************************************************************)

\* The name-to-value map holding the pairs of a list of {name, value}
\* records, in the order of the list.
MapForm(ai) ==
    [shape |-> "dict",
     items |-> [i \in 1..Len(ai.items) |-> <<ai.items[i].name, ai.items[i].value>>]]

\* The mapper was given a list of {name, value} records with pairwise
\* distinct names.
ListOfDistinctNames ==
    /\ pc = "done"
    /\ ai_attributes.shape = "list"
    /\ \A i, j \in 1..Len(ai_attributes.items) :
           i # j => ai_attributes.items[i].name # ai_attributes.items[j].name

\* C22: for a list of {name, value} records with distinct names, the
\* mapper returns what it returns for the map holding the same pairs in
\* the same order, against the same schema.
C22_ListAndMapAgree ==
    ListOfDistinctNames =>
        mapped = map_ai_attributes_to_marktplaats(MapForm(ai_attributes),
                                                  mp_attributes).mapped

\* A list of two attributes that are both mapped, to different keys.
C22_Witness ==
    /\ ListOfDistinctNames
    /\ Len(ai_attributes.items) = 2
    /\ Len(mapped) = 2
    /\ mapped[1].key # mapped[2].key

(***************************************************************************)
(* Properties of the mapper's lookup.                                      *)
(***************************************************************************)

\* The text a schema entry is labelled with: its Dutch label, else its plain
\* label, else nothing.
Labelling(e) ==
    IF "labels" \in DOMAIN e /\ "nl-NL" \in DOMAIN e.labels /\ e.labels["nl-NL"] # ""
    THEN e.labels["nl-NL"]
    ELSE IF "label" \in DOMAIN e THEN e.label ELSE ""

\* The names the lookup is keyed by.
LookupNames ==
    {name_to_attr_keys(mp_attributes)[i] :
        i \in 1..Len(name_to_attr_keys(mp_attributes))}

\* The AI attributes whose name is the key of a schema entry without label.
NamedAfterUnlabelled ==
    {i \in 1..Len(Normalized) :
        \E e \in Schema : Labelling(e) = "" /\ e.key = Normalized[i].name}

\* C24 as claimed: the lookup holds every schema entry, a labelled one under
\* its label and an unlabelled one under its key, so an AI attribute named
\* after the key of an unlabelled entry is mapped to that entry.
C24_UnlabelledEntryUnderKey ==
    pc = "done" =>
        /\ \A e \in Schema :
               (IF Labelling(e) # "" THEN Labelling(e) ELSE e.key) \in LookupNames
        /\ \A i \in NamedAfterUnlabelled :
               \E k \in 1..Len(mapped) : mapped[k].key = Normalized[i].name

\* C24: the lookup holds the labelled schema entries under their labels and
\* nothing else; an entry without any label is not entered, and no emitted
\* attribute carries its key.
C24_LabelledEntriesOnly ==
    pc = "done" =>
        /\ LookupNames = {Labelling(e) : e \in Schema} \ {""}
        /\ \A e \in Schema :
               Labelling(e) = "" =>
                   \A k \in 1..Len(mapped) : mapped[k].key # e.key

\* An AI attribute named after the key of an unlabelled entry is left out
\* while another attribute of the same request is mapped.
C24_Witness ==
    /\ pc = "done"
    /\ NamedAfterUnlabelled # {}
    /\ Len(Normalized) = 2
    /\ Len(mapped) = 1

(***************************************************************************)
(* Concurrent requests on the table of drafts.  Every request runs in its  *)
(* own Lambda invocation; the table serialises its single operations       *)
(* (get_item, update_item, delete_item) and nothing else, so a request     *)
(* takes one step for each of them.  pc, event, fetched and response hold  *)
(* one entry for every running request.                                    *)
(***************************************************************************)

\* draft_image_upload_lambda.py line 110
MaxImages == 3

\* Line 110: len(current_images) > 3
at_image_limit_above(current_images) == Len(current_images) > MaxImages

\* Line 110: len(current_images) >= 3
at_image_limit(current_images) == Len(current_images) >= MaxImages

\* Lines 295-307: table.update_item(Key={'draftId': draft_id}, SET ...).
\* The call carries no ConditionExpression: when no item is stored under
\* the key, the table creates one that holds the key and the fields set.
table_update_item(store, draft_id, updates, now) ==
    IF \E i \in 1..Len(store) : store[i].draft_id = draft_id
    THEN [i \in 1..Len(store) |->
             IF store[i].draft_id = draft_id
             THEN update_item(store[i], updates, now)
             ELSE store[i]]
    ELSE Append(store,
                update_item([a \in {"draft_id", "updated_at"}
                                   \cup {AttributeOf[f] : f \in DOMAIN updates} |->
                                IF a = "draft_id" THEN draft_id ELSE now],
                            updates, now))

\* Line 339: table.delete_item(Key={'draftId': draft_id})
table_delete_item(store, draft_id) ==
    InOrder(store, {i \in 1..Len(store) : store[i].draft_id # draft_id})

\* uuid.uuid4().hex and datetime.utcnow(): one value for every request.
ImageUrls == <<"url1", "url2", "url3">>
Nows == <<"t1", "t2", "t3">>

\* The images a stored draft starts with.
StoredImages == <<"urla", "urlb", "urlc">>

\* The draft of the table: complete, owned by mp1, with up to three images.
TableDrafts ==
    {[draft_id |-> "d1", user_id |-> "mp1", title |-> "Audi A4",
      description |-> "Nette auto", category_id |-> 12,
      category_name |-> "Auto > Audi", attributes |-> <<>>,
      price_model |-> [modelType |-> "fixed", askingPrice |-> 150],
      postcode |-> DefaultPostcode, images |-> SubSeq(StoredImages, 1, n),
      ai_generated |-> TRUE, status |-> "draft", updated_at |-> "t0"] :
        n \in 0..MaxImages}

\* The requests: of the owner mp1 and of another user.  user_id is the
\* Marktplaats user id the handlers resolve.
UploadRequests == [kind : {"upload"}, draft_id : {"d1"}, user_id : {"mp1", "mp2"}]

StorageRequests ==
    [kind : {"get", "delete"}, draft_id : {"d1"}, user_id : {"mp1", "mp2"}]
    \cup [kind : {"update"}, draft_id : {"d1"}, user_id : {"mp1", "mp2"},
          updates : {[title |-> "Updated Title"], [userId |-> "mp2"]}]

PublishRequests ==
    [kind : {"publish"}, draft_id : {"d1"}, user_id : {"mp1", "mp2"},
     internal_user_id : {"u1"}, deleteDraft : BOOLEAN]

\* Where a request starts: update_draft and delete_draft are called
\* directly by the requests of their kind.
FirstStep(ev) ==
    IF ev.kind = "update" THEN "update"
    ELSE IF ev.kind = "delete" THEN "delete"
    ELSE "start"

\* The updates a request passes to update_draft: line 120-121 for an upload.
updates_of(ev, local) ==
    IF ev.kind = "upload"
    THEN [images |-> local.current_images \o <<local.image_url>>]
    ELSE ev.updates

\* The answer of the upload handler (lines 127-135).
Uploaded(local) ==
    [statusCode |-> 200, error |-> "", imageUrl |-> local.image_url,
     totalImages |-> Len(local.current_images) + 1]

\* draft_image_upload_lambda.py lines 100-111: get_draft and the check of
\* the image count.
UploadGet(p) ==
    /\ pc[p] = "start"
    /\ event[p].kind = "upload"
    /\ \E draft \in {get_draft(drafts, event[p].draft_id, event[p].user_id)} :
           IF draft = None
           THEN /\ response' = [response EXCEPT ![p] =
                       [statusCode |-> 404,
                        error |-> "Draft not found or not owned by user"]]
                /\ pc' = [pc EXCEPT ![p] = "done"]
                /\ UNCHANGED fetched
           ELSE IF at_image_limit(draft.images)
           THEN /\ response' = [response EXCEPT ![p] =
                       [statusCode |-> 400,
                        error |-> "Draft already has maximum number of images (3)"]]
                /\ pc' = [pc EXCEPT ![p] = "done"]
                /\ UNCHANGED fetched
           ELSE /\ fetched' = [fetched EXCEPT ![p] =
                       [current_images |-> draft.images]]
                /\ pc' = [pc EXCEPT ![p] = "put"]
                /\ UNCHANGED response
    /\ UNCHANGED <<categories, flat, suggested_path, category_match>>
    /\ UNCHANGED <<ai_attributes, mp_attributes, mapped, printed>>
    /\ UNCHANGED <<event, services, listing_data, matcher_calls>>
    /\ UNCHANGED <<category_id, drafts, api_calls>>

\* Lines 113-116: _upload_image_to_s3, which puts the object or fails.
UploadPut(p) ==
    /\ pc[p] = "put"
    /\ \E ok \in BOOLEAN :
           IF ok
           THEN /\ api_calls' = Append(api_calls,
                       [op |-> "put_object", key |-> ImageUrls[p]])
                /\ fetched' = [fetched EXCEPT ![p] =
                       [current_images |-> fetched[p].current_images,
                        image_url |-> ImageUrls[p]]]
                /\ pc' = [pc EXCEPT ![p] = "update"]
                /\ UNCHANGED response
           ELSE /\ response' = [response EXCEPT ![p] =
                       [statusCode |-> 500,
                        error |-> "Failed to upload image to S3"]]
                /\ pc' = [pc EXCEPT ![p] = "done"]
                /\ UNCHANGED <<api_calls, fetched>>
    /\ UNCHANGED <<categories, flat, suggested_path, category_match>>
    /\ UNCHANGED <<ai_attributes, mp_attributes, mapped, printed>>
    /\ UNCHANGED <<event, services, listing_data, matcher_calls>>
    /\ UNCHANGED <<category_id, drafts>>

\* draft_storage.py lines 261-270: update_draft refuses protected fields
\* and reads the draft to verify its owner.  The upload handler does not
\* look at what update_draft returns (line 121) and answers 200.
UpdateGet(p) ==
    /\ pc[p] = "update"
    /\ IF DOMAIN updates_of(event[p], fetched[p]) \cap protected_fields # {}
       THEN /\ response' = [response EXCEPT ![p] =
                   [raised |-> "ValueError", returned |-> None]]
            /\ pc' = [pc EXCEPT ![p] = "done"]
       ELSE IF get_draft(drafts, event[p].draft_id, event[p].user_id) = None
       THEN /\ response' = [response EXCEPT ![p] =
                   IF event[p].kind = "upload" THEN Uploaded(fetched[p])
                   ELSE [raised |-> "", returned |-> None]]
            /\ pc' = [pc EXCEPT ![p] = "done"]
       ELSE /\ pc' = [pc EXCEPT ![p] = "write"]
            /\ UNCHANGED response
    /\ UNCHANGED <<categories, flat, suggested_path, category_match>>
    /\ UNCHANGED <<ai_attributes, mp_attributes, mapped, printed>>
    /\ UNCHANGED <<event, services, listing_data, matcher_calls>>
    /\ UNCHANGED <<category_id, drafts, fetched, api_calls>>

\* draft_storage.py lines 272-312: update_draft writes with update_item and
\* returns the item the table answers.
UpdateWrite(p) ==
    /\ pc[p] = "write"
    /\ \E store \in {table_update_item(drafts, event[p].draft_id,
                                       updates_of(event[p], fetched[p]),
                                       Nows[p])} :
           /\ drafts' = store
           /\ response' = [response EXCEPT ![p] =
                  IF event[p].kind = "upload" THEN Uploaded(fetched[p])
                  ELSE [raised |-> "",
                        returned |-> IF \E i \in 1..Len(store) :
                                            store[i].draft_id = event[p].draft_id
                                     THEN store[CHOOSE i \in 1..Len(store) :
                                              store[i].draft_id = event[p].draft_id]
                                     ELSE None]]
    /\ pc' = [pc EXCEPT ![p] = "done"]
    /\ UNCHANGED <<categories, flat, suggested_path, category_match>>
    /\ UNCHANGED <<ai_attributes, mp_attributes, mapped, printed>>
    /\ UNCHANGED <<event, services, listing_data, matcher_calls>>
    /\ UNCHANGED <<category_id, fetched, api_calls>>

\* draft_storage.py lines 161-193: one call of get_draft.
GetDraft(p) ==
    /\ pc[p] = "start"
    /\ event[p].kind = "get"
    /\ response' = [response EXCEPT ![p] =
           [returned |-> get_draft(drafts, event[p].draft_id, event[p].user_id)]]
    /\ pc' = [pc EXCEPT ![p] = "done"]
    /\ UNCHANGED <<categories, flat, suggested_path, category_match>>
    /\ UNCHANGED <<ai_attributes, mp_attributes, mapped, printed>>
    /\ UNCHANGED <<event, services, listing_data, matcher_calls>>
    /\ UNCHANGED <<category_id, drafts, fetched, api_calls>>

\* The answer of a successful publish (lines 499-511).
PublishedOk == [statusCode |-> 200, error |-> "", details |-> <<>>]

\* draft_storage.py lines 333-336: delete_draft reads the draft to verify
\* its owner.  After a publish, delete_draft is tried again for the internal
\* user id (line 489), who owns no draft, and the handler answers 200.
DeleteGet(p) ==
    /\ pc[p] = "delete"
    /\ IF get_draft(drafts, event[p].draft_id, event[p].user_id) = None
       THEN /\ response' = [response EXCEPT ![p] =
                   IF event[p].kind = "publish" THEN PublishedOk
                   ELSE [returned |-> FALSE]]
            /\ pc' = [pc EXCEPT ![p] = "done"]
       ELSE /\ pc' = [pc EXCEPT ![p] = "delete_item"]
            /\ UNCHANGED response
    /\ UNCHANGED <<categories, flat, suggested_path, category_match>>
    /\ UNCHANGED <<ai_attributes, mp_attributes, mapped, printed>>
    /\ UNCHANGED <<event, services, listing_data, matcher_calls>>
    /\ UNCHANGED <<category_id, drafts, fetched, api_calls>>

\* draft_storage.py lines 338-341: delete_draft deletes the item.
DeleteItem(p) ==
    /\ pc[p] = "delete_item"
    /\ drafts' = table_delete_item(drafts, event[p].draft_id)
    /\ response' = [response EXCEPT ![p] =
           IF event[p].kind = "publish" THEN PublishedOk
           ELSE [returned |-> TRUE]]
    /\ pc' = [pc EXCEPT ![p] = "done"]
    /\ UNCHANGED <<categories, flat, suggested_path, category_match>>
    /\ UNCHANGED <<ai_attributes, mp_attributes, mapped, printed>>
    /\ UNCHANGED <<event, services, listing_data, matcher_calls>>
    /\ UNCHANGED <<category_id, fetched, api_calls>>

\* draft_management_lambda.py lines 410-441: the draft is read for the
\* Marktplaats user id, then for the internal user id, who owns no draft,
\* and validated.
PublishGet(p) ==
    /\ pc[p] = "start"
    /\ event[p].kind = "publish"
    /\ \E draft \in {IF get_draft(drafts, event[p].draft_id, event[p].user_id) # None
                     THEN get_draft(drafts, event[p].draft_id, event[p].user_id)
                     ELSE get_draft(drafts, event[p].draft_id,
                                    event[p].internal_user_id)} :
           IF draft = None
           THEN /\ response' = [response EXCEPT ![p] =
                       [statusCode |-> 404, error |-> "Draft not found",
                        details |-> <<>>]]
                /\ pc' = [pc EXCEPT ![p] = "done"]
                /\ UNCHANGED fetched
           ELSE IF validate_draft_for_publishing(draft) # <<>>
           THEN /\ response' = [response EXCEPT ![p] =
                       [statusCode |-> 400, error |-> "Draft validation failed",
                        details |-> validate_draft_for_publishing(draft)]]
                /\ pc' = [pc EXCEPT ![p] = "done"]
                /\ UNCHANGED fetched
           ELSE /\ fetched' = [fetched EXCEPT ![p] = [draft |-> draft]]
                /\ pc' = [pc EXCEPT ![p] = "create"]
                /\ UNCHANGED response
    /\ UNCHANGED <<categories, flat, suggested_path, category_match>>
    /\ UNCHANGED <<ai_attributes, mp_attributes, mapped, printed>>
    /\ UNCHANGED <<event, services, listing_data, matcher_calls>>
    /\ UNCHANGED <<category_id, drafts, api_calls>>

\* draft_management_lambda.py lines 443-498: create_advertisement, which
\* succeeds or raises, and what follows it: the draft is deleted unless
\* the request says otherwise.  A failure of the upload of the images to
\* the advertisement is logged and changes nothing (lines 473-480).
PublishCreate(p) ==
    /\ pc[p] = "create"
    /\ \E ok \in BOOLEAN :
           /\ api_calls' = Append(api_calls,
                  CreateCall(fetched[p].draft.category_id,
                             fetched[p].draft.attributes,
                             publish_price_model(fetched[p].draft.price_model))
                  @@ [succeeded |-> ok])
           /\ IF ~ok
              THEN /\ response' = [response EXCEPT ![p] =
                          [statusCode |-> 500, error |-> "Failed to publish draft",
                           details |-> <<>>]]
                   /\ pc' = [pc EXCEPT ![p] = "done"]
              ELSE IF event[p].deleteDraft
              THEN /\ pc' = [pc EXCEPT ![p] = "delete"]
                   /\ UNCHANGED response
              ELSE /\ response' = [response EXCEPT ![p] = PublishedOk]
                   /\ pc' = [pc EXCEPT ![p] = "done"]
    /\ UNCHANGED <<categories, flat, suggested_path, category_match>>
    /\ UNCHANGED <<ai_attributes, mp_attributes, mapped, printed>>
    /\ UNCHANGED <<event, services, listing_data, matcher_calls>>
    /\ UNCHANGED <<category_id, drafts, fetched>>

\* Three concurrent requests to upload an image.
Uploaders == {1, 2, 3}

InitUploads ==
    /\ event \in [Uploaders -> UploadRequests]
    /\ pc = [p \in Uploaders |-> "start"]
    /\ fetched = [p \in Uploaders |-> None]
    /\ response = [p \in Uploaders |-> None]
    /\ drafts \in {<<d>> : d \in TableDrafts}
    /\ api_calls = <<>>
    /\ MatcherIdle
    /\ MapperIdle
    /\ services = None
    /\ listing_data = None
    /\ matcher_calls = 0
    /\ category_id = 0

NextUploads ==
    \/ \E p \in Uploaders : UploadGet(p)
    \/ \E p \in Uploaders : UploadPut(p)
    \/ \E p \in Uploaders : UpdateGet(p)
    \/ \E p \in Uploaders : UpdateWrite(p)

SpecUploads == InitUploads /\ [][NextUploads]_vars

\* Three concurrent requests of any kind.
Requesters == {1, 2, 3}

InitStore ==
    /\ event \in [Requesters -> UploadRequests \cup StorageRequests
                                    \cup PublishRequests]
    /\ pc = [p \in Requesters |-> FirstStep(event[p])]
    /\ fetched = [p \in Requesters |-> None]
    /\ response = [p \in Requesters |-> None]
    /\ drafts \in {<<d>> : d \in TableDrafts}
    /\ api_calls = <<>>
    /\ MatcherIdle
    /\ MapperIdle
    /\ services = None
    /\ listing_data = None
    /\ matcher_calls = 0
    /\ category_id = 0

NextStore ==
    \/ \E p \in Requesters : UploadGet(p)
    \/ \E p \in Requesters : UploadPut(p)
    \/ \E p \in Requesters : UpdateGet(p)
    \/ \E p \in Requesters : UpdateWrite(p)
    \/ \E p \in Requesters : GetDraft(p)
    \/ \E p \in Requesters : DeleteGet(p)
    \/ \E p \in Requesters : DeleteItem(p)
    \/ \E p \in Requesters : PublishGet(p)
    \/ \E p \in Requesters : PublishCreate(p)

SpecStore == InitStore /\ [][NextStore]_vars

(***************************************************************************)
(* Properties of the concurrent requests.                                  *)
(***************************************************************************)

AllDone == \A p \in DOMAIN pc : pc[p] = "done"

\* The images stored under the id of the request of p.
StoredImagesOf(p) ==
    UNION {{drafts[i].images[k] : k \in 1..Len(drafts[i].images)} :
              i \in {i \in 1..Len(drafts) :
                        /\ drafts[i].draft_id = event[p].draft_id
                        /\ "images" \in DOMAIN drafts[i]}}

\* The objects put into the object storage.
PutObjects ==
    {api_calls[i].key : i \in {i \in 1..Len(api_calls) :
                                  api_calls[i].op = "put_object"}}

\* Request p is an upload that reads a draft holding three images.
FindsThreeImages(p) ==
    /\ pc[p] = "start"
    /\ event[p].kind = "upload"
    /\ get_draft(drafts, event[p].draft_id, event[p].user_id) # None
    /\ Len(get_draft(drafts, event[p].draft_id, event[p].user_id).images) = 3

\* C26: a draft that has at most three images has at most three after any
\* interleaving of upload requests, and an upload that finds three images
\* is rejected with 400 and changes neither the draft nor the object
\* storage.
C26_ImageCap ==
    /\ [](\A i \in 1..Len(drafts) : Len(drafts[i].images) <= 3)
    /\ [][\A p \in DOMAIN pc :
             (FindsThreeImages(p) /\ pc'[p] # pc[p]) =>
                 /\ pc'[p] = "done"
                 /\ response'[p].statusCode = 400
                 /\ drafts' = drafts
                 /\ api_calls' = api_calls]_vars

\* Two uploads fill the draft and a third one is rejected.
C26_Witness ==
    /\ AllDone
    /\ \A p \in DOMAIN pc : event[p].kind = "upload"
    /\ Cardinality({p \in DOMAIN pc : response[p].statusCode = 200}) = 2
    /\ Cardinality({p \in DOMAIN pc : response[p].statusCode = 400}) = 1
    /\ Len(drafts[1].images) = 3
    /\ Cardinality(PutObjects) = 2

\* The requests that do not come from the owner of the stored draft.
Strangers ==
    {p \in DOMAIN pc : \A d \in TableDrafts : event[p].user_id # d.user_id}

\* The requests that call get_draft, update_draft or delete_draft.
StorageCalls == {p \in DOMAIN pc : event[p].kind \in {"get", "update", "delete"}}

\* The requests that ask update_draft to change userId.
UserIdChanges ==
    {p \in DOMAIN pc : event[p].kind = "update" /\ "userId" \in DOMAIN event[p].updates}

\* C27: get_draft, update_draft and delete_draft called with a user_id that
\* is not the owner's return not-found (None, False) and leave the draft
\* unchanged; update_draft asked to change userId raises ValueError and
\* writes nothing.
C27_OwnershipIsolation ==
    [][\A p \in DOMAIN pc :
          /\ (p \in Strangers \cap StorageCalls /\ pc'[p] # pc[p]) =>
                 /\ drafts' = drafts
                 /\ pc'[p] = "done"
                 /\ event[p].kind \in {"get", "update"} /\ p \notin UserIdChanges =>
                        response'[p].returned = None
                 /\ event[p].kind = "delete" => response'[p].returned = FALSE
          /\ (p \in UserIdChanges /\ pc'[p] # pc[p]) =>
                 /\ drafts' = drafts
                 /\ pc'[p] = "done"
                 /\ response'[p].raised = "ValueError"]_vars

\* A stranger's delete_draft returned False and the owner's update_draft
\* refused to change userId: the draft is stored as it was.
C27_Witness ==
    /\ AllDone
    /\ \E p \in Strangers : event[p].kind = "delete" /\ response[p].returned = FALSE
    /\ \E p \in UserIdChanges \ Strangers : response[p].raised = "ValueError"
    /\ <<drafts[1]>> \in {<<d>> : d \in TableDrafts}

\* C28 as claimed: every upload that answered 200 has its URL in the stored
\* list of images, also when uploads interleave between read and write.
C28_NoLostImage ==
    \A p \in DOMAIN pc :
        (/\ \A q \in DOMAIN pc : event[q].kind = "upload"
         /\ pc[p] = "done"
         /\ response[p].statusCode = 200)
            => response[p].imageUrl \in StoredImagesOf(p)

\* The calls of create_advertisement that succeeded.
SuccessfulCreates ==
    {i \in 1..Len(api_calls) :
        api_calls[i].op = "create_advertisement" /\ api_calls[i].succeeded}

\* C29 as claimed: across any interleaving of publish requests that delete
\* the draft, create_advertisement succeeds at most once.
C29_PublishedAtMostOnce ==
    (\A p \in DOMAIN pc : event[p].kind = "publish" /\ event[p].deleteDraft)
        => Cardinality(SuccessfulCreates) <= 1

\* C30 as claimed: when delete_draft has deleted the draft and every
\* update_draft on its id that interleaved with it has returned, no item
\* is stored under the id.
C30_DeletedStaysDeleted ==
    (/\ AllDone
     /\ \A p \in DOMAIN pc : event[p].kind \in {"delete", "update"}
     /\ \E p \in DOMAIN pc : event[p].kind = "delete" /\ response[p].returned = TRUE)
        => \A i \in 1..Len(drafts) :
               \A p \in DOMAIN pc : drafts[i].draft_id # event[p].draft_id

====
